---- MODULE Spec2Model ----
(***************************************************************************)
(* Model of the rmw name validators (full topic name, namespace, node      *)
(* name): src/rmw/src/validate_full_topic_name.c, validate_namespace.c and *)
(* validate_node_name.c.                                                   *)
(*                                                                         *)
(* A name is the content of the caller's buffer up to its terminating NUL, *)
(* a sequence of characters indexed from 1 here and from 0 in C.  One      *)
(* representative stands for each character class the code distinguishes:  *)
(*   "/"  the forward slash          "a"  a letter  [A-Za-z]               *)
(*   "1"  a digit [0-9]              "_"  the underscore                   *)
(*   "!"  any other character                                              *)
(* A behaviour is one call of one validator on inputs drawn by Init.       *)
(***************************************************************************)
EXTENDS Integers, Sequences, FiniteSets

VARIABLES
  op,                      \* the validator that was called, "none" before the call
  name,                    \* the characters of the buffer before its NUL
  name_null,               \* the name pointer is NULL
  name_length,             \* the length the _with_size body was given
  validation_result_null,  \* the validation_result pointer is NULL
  invalid_index_null,      \* the invalid_index pointer is NULL
  validation_result,       \* the caller's int behind validation_result
  invalid_index,           \* the caller's size_t behind invalid_index
  ret,                     \* the rmw_ret_t the call returned
  publisher_profile,       \* the QoS profile of the publisher
  subscription_profile,    \* the QoS profile of the subscription
  compatibility_null,      \* the compatibility pointer is NULL
  reason_null,             \* the reason pointer is NULL
  reason_size,             \* the size given for the reason buffer
  compatibility,           \* the caller's verdict behind compatibility
  reason,                  \* the characters written to the reason buffer
  discovery_options,       \* the caller's rmw_discovery_options_t
  security_options,        \* the caller's rmw_security_options_t
  heap,                    \* the blocks the allocator handed out
  calls,                   \* the steps the caller of the options has made
  discovery_dst,           \* the rmw_discovery_options_t a copy is made into
  result,                  \* the caller's bool behind result
  args,                    \* the arguments of the last call
  names_and_types,         \* the caller's rmw_names_and_types_t
  topic_endpoint_info_array,  \* the caller's rmw_topic_endpoint_info_array_t
  endpoint_gid,            \* the endpoint_gid of the caller's rmw_topic_endpoint_info_t
  time_in,                 \* the rmw_time_t a time function is given
  normalized,              \* the rmw_time_t rmw_time_normalize returned
  total_nsec,              \* the rmw_duration_t rmw_time_total_nsec returned
  content_filter_options,  \* the caller's rmw_subscription_content_filter_options_t
  content_filter_src,      \* the options a copy is made from
  security_src             \* the rmw_security_options_t a copy is made from

validator_vars ==
  <<name, name_null, name_length, validation_result_null, invalid_index_null,
    validation_result, invalid_index>>
qos_vars ==
  <<publisher_profile, subscription_profile, compatibility_null, reason_null,
    reason_size, compatibility, reason>>
options_vars == <<discovery_options, security_options, heap, calls>>
copy_vars == <<discovery_dst, result, args>>
array_vars == <<names_and_types, topic_endpoint_info_array>>
gid_vars == <<endpoint_gid>>
time_vars == <<time_in, normalized, total_nsec>>
filter_vars == <<content_filter_options, content_filter_src>>
source_vars == <<security_src>>
rest_vars == <<array_vars, gid_vars, time_vars, filter_vars, source_vars>>
vars ==
  <<op, ret, validator_vars, qos_vars, options_vars, copy_vars, rest_vars>>

\* What a call of one part of the library leaves alone: the state of the
\* other parts.
beside_validators == <<qos_vars, options_vars, copy_vars, rest_vars>>
beside_qos == <<validator_vars, options_vars, copy_vars, rest_vars>>
beside_options == <<validator_vars, qos_vars, copy_vars, rest_vars>>

----------------------------------------------------------------------------
(* Program constants *)

RMW_RET_OK == 0
RMW_RET_ERROR == 1
RMW_RET_INVALID_ARGUMENT == 11

RMW_TOPIC_VALID == 0
RMW_TOPIC_INVALID_IS_EMPTY_STRING == 1
RMW_TOPIC_INVALID_NOT_ABSOLUTE == 2
RMW_TOPIC_INVALID_ENDS_WITH_FORWARD_SLASH == 3
RMW_TOPIC_INVALID_CONTAINS_UNALLOWED_CHARACTERS == 4
RMW_TOPIC_INVALID_CONTAINS_REPEATED_FORWARD_SLASH == 5
RMW_TOPIC_INVALID_NAME_TOKEN_STARTS_WITH_NUMBER == 6
RMW_TOPIC_INVALID_TOO_LONG == 7
RMW_TOPIC_MAX_NAME_LENGTH == 255 - 8

RMW_NAMESPACE_VALID == 0
RMW_NAMESPACE_INVALID_IS_EMPTY_STRING == 1
RMW_NAMESPACE_INVALID_NOT_ABSOLUTE == 2
RMW_NAMESPACE_INVALID_ENDS_WITH_FORWARD_SLASH == 3
RMW_NAMESPACE_INVALID_CONTAINS_UNALLOWED_CHARACTERS == 4
RMW_NAMESPACE_INVALID_CONTAINS_REPEATED_FORWARD_SLASH == 5
RMW_NAMESPACE_INVALID_NAME_TOKEN_STARTS_WITH_NUMBER == 6
RMW_NAMESPACE_INVALID_TOO_LONG == 7
RMW_NAMESPACE_MAX_LENGTH == RMW_TOPIC_MAX_NAME_LENGTH - 2

RMW_NODE_NAME_VALID == 0
RMW_NODE_NAME_INVALID_IS_EMPTY_STRING == 1
RMW_NODE_NAME_INVALID_CONTAINS_UNALLOWED_CHARACTERS == 2
RMW_NODE_NAME_INVALID_STARTS_WITH_NUMBER == 3
RMW_NODE_NAME_INVALID_TOO_LONG == 4
RMW_NODE_NAME_MAX_NAME_LENGTH == 255

----------------------------------------------------------------------------
(* Bounds of the model *)

\* Longest name drawn with every combination of characters.
MaxCore == 5
\* Longest core of a name that is padded with letters up to the length limits.
MaxPadCore == 3
\* Longest name that is passed together with NULL pointers.
MaxNullArgs == 1

\* What an int or size_t holds before anything is stored in it: the caller's
\* outputs and return value before the call, the locals of lines 88-89.
Unset == -1

Char == {"/", "a", "1", "_", "!"}

\* core with k letters inserted after its first pos characters
Pad(core, pos, k) ==
  SubSeq(core, 1, pos) \o [i \in 1..k |-> "a"] \o SubSeq(core, pos + 1, Len(core))

Cores(n) == UNION {[1..k -> Char] : k \in 0..n}

\* Paddings that bring a core of length c to each length limit and one past it.
PadLens(c) ==
  {l - c + d : l \in {RMW_NAMESPACE_MAX_LENGTH, RMW_TOPIC_MAX_NAME_LENGTH,
                      RMW_NODE_NAME_MAX_NAME_LENGTH},
               d \in {0, 1}}

ShortNames == Cores(MaxCore)
LongNames ==
  UNION {UNION {{Pad(c, pos, k) : k \in PadLens(Len(c))} : pos \in 0..Len(c)}
         : c \in Cores(MaxPadCore)}
\* The names the specification gives as examples.
ExampleNames ==
  {<<"/", "a", "a", "a", "/", "a", "a", "a">>,
   <<"/", "a", "a", "a", "/", "/", "a", "a", "a">>,
   <<"/", "a", "a", "a", "/", "1", "a", "a", "a">>,
   <<"a", "a", "_", "a", "a", "a", "a">>}
Names == ShortNames \cup LongNames \cup ExampleNames

\* The lengths a _with_size call is given for a buffer: every prefix of a
\* short name; of a long one the empty prefix, all of it, and all but its
\* last character.
SizeArgs(buf) ==
  {n \in 0..Len(buf) : Len(buf) <= MaxCore \/ n = 0 \/ Len(buf) - n <= 1}

----------------------------------------------------------------------------
(* Helpers of the code *)

\* topic_name[i], C index i (i < strlen); the byte at strlen is the NUL.
CharAt(buf, i) == IF i < Len(buf) THEN buf[i + 1] ELSE "NUL"

strlen(buf) == Len(buf)

rcutils_isalnum_no_locale(c) == c \in {"a", "1"}

isdigit(c) == c = "1"

\* A variant that resets the caller's index when it reports a valid name.
Out_resets_index(r, vr, ii) ==
  [ret |-> r, validation_result |-> vr,
   invalid_index |-> IF r = 0 /\ vr = 0 THEN 0 ELSE ii]

\* What a call leaves behind: its return value and the caller's two outputs.
Out(r, vr, ii) == [ret |-> r, validation_result |-> vr, invalid_index |-> ii]

\* if (invalid_index) { *invalid_index = v; }
SetIndex(ii_null, ii, v) == IF ii_null THEN ii ELSE v

\* A variant that keeps scanning and reports the last index found.
LoopExit_last(stops) == CHOOSE i \in stops : \A j \in stops : i >= j

\* for (size_t i = 0; i < length; ++i) with a return in its body: of the
\* indexes at which the body returns, the loop reaches the least.
LoopExit(stops) == CHOOSE i \in stops : \A j \in stops : i <= j

\* A variant that counts the terminating NUL in the length.
IsRootNamespace_counts_nul(buf, n) == n = 2 /\ CharAt(buf, 0) = "/"

\* line 79: the root namespace, one character that is a '/'
IsRootNamespace(buf, n) == n = 1 /\ CharAt(buf, 0) = "/"

----------------------------------------------------------------------------
(* rmw_validate_full_topic_name *)

\* A variant of the first loop without the branch for '_'.
TopicUnallowedAt_no_underscore(buf, n) ==
  {i \in 0..(n - 1) : /\ ~rcutils_isalnum_no_locale(CharAt(buf, i))
                      /\ CharAt(buf, i) # "/"}

\* The indexes at which the first loop (lines 97-117) would stop: characters
\* that are neither alphanumeric, '_' nor '/'.  The loop returns at the least.
TopicUnallowedAt(buf, n) ==
  {i \in 0..(n - 1) : /\ ~rcutils_isalnum_no_locale(CharAt(buf, i))
                      /\ CharAt(buf, i) # "_"
                      /\ CharAt(buf, i) # "/"}

\* A variant of the second loop that starts at index 1.
TopicTokenFaultAt_from_one(buf, n) ==
  {i \in 1..(n - 2) : /\ CharAt(buf, i) = "/"
                      /\ \/ CharAt(buf, i + 1) = "/"
                         \/ isdigit(CharAt(buf, i + 1))}

\* A variant of the second loop that looks for a repeated '/' only.
TopicTokenFaultAt_no_digit(buf, n) ==
  {i \in 0..(n - 2) : CharAt(buf, i) = "/" /\ CharAt(buf, i + 1) = "/"}

\* The indexes at which the second loop (lines 119-144) would stop: a '/'
\* before the last character followed by '/' or by a digit.
TopicTokenFaultAt(buf, n) ==
  {i \in 0..(n - 2) : /\ CharAt(buf, i) = "/"
                      /\ \/ CharAt(buf, i + 1) = "/"
                         \/ isdigit(CharAt(buf, i + 1))}

rmw_validate_full_topic_name_with_size(nm_null, buf, n, vr_null, ii_null, vr, ii) ==
  IF nm_null THEN Out(RMW_RET_INVALID_ARGUMENT, vr, ii)
  ELSE IF vr_null THEN Out(RMW_RET_INVALID_ARGUMENT, vr, ii)
  ELSE IF n = 0 THEN
    Out(RMW_RET_OK, RMW_TOPIC_INVALID_IS_EMPTY_STRING, SetIndex(ii_null, ii, 0))
  ELSE IF CharAt(buf, 0) # "/" THEN
    Out(RMW_RET_OK, RMW_TOPIC_INVALID_NOT_ABSOLUTE, SetIndex(ii_null, ii, 0))
  ELSE IF CharAt(buf, n - 1) = "/" THEN
    Out(RMW_RET_OK, RMW_TOPIC_INVALID_ENDS_WITH_FORWARD_SLASH,
        SetIndex(ii_null, ii, n - 1))
  ELSE IF TopicUnallowedAt(buf, n) # {} THEN
    Out(RMW_RET_OK, RMW_TOPIC_INVALID_CONTAINS_UNALLOWED_CHARACTERS,
        SetIndex(ii_null, ii, LoopExit(TopicUnallowedAt(buf, n))))
  ELSE IF TopicTokenFaultAt(buf, n) # {} THEN
    LET i == LoopExit(TopicTokenFaultAt(buf, n)) IN
      IF CharAt(buf, i + 1) = "/" THEN
        Out(RMW_RET_OK, RMW_TOPIC_INVALID_CONTAINS_REPEATED_FORWARD_SLASH,
            SetIndex(ii_null, ii, i + 1))
      ELSE
        Out(RMW_RET_OK, RMW_TOPIC_INVALID_NAME_TOKEN_STARTS_WITH_NUMBER,
            SetIndex(ii_null, ii, i + 1))
  ELSE IF n > RMW_TOPIC_MAX_NAME_LENGTH THEN
    Out(RMW_RET_OK, RMW_TOPIC_INVALID_TOO_LONG,
        SetIndex(ii_null, ii, RMW_TOPIC_MAX_NAME_LENGTH - 1))
  ELSE Out(RMW_RET_OK, RMW_TOPIC_VALID, ii)

rmw_validate_full_topic_name(nm_null, buf, vr_null, ii_null, vr, ii) ==
  IF nm_null THEN Out(RMW_RET_INVALID_ARGUMENT, vr, ii)
  ELSE rmw_validate_full_topic_name_with_size(
         nm_null, buf, strlen(buf), vr_null, ii_null, vr, ii)

----------------------------------------------------------------------------
(* rmw_validate_namespace *)

\* A variant of the switch without the case for a digit-led token.
NamespaceSwitchCases_missing_case ==
  {RMW_TOPIC_INVALID_IS_EMPTY_STRING, RMW_TOPIC_INVALID_NOT_ABSOLUTE,
   RMW_TOPIC_INVALID_ENDS_WITH_FORWARD_SLASH,
   RMW_TOPIC_INVALID_CONTAINS_UNALLOWED_CHARACTERS,
   RMW_TOPIC_INVALID_CONTAINS_REPEATED_FORWARD_SLASH}

\* The codes the switch of lines 97-131 has a case for; any other code
\* takes its default branch, which returns RMW_RET_ERROR.
NamespaceSwitchCases ==
  {RMW_TOPIC_INVALID_IS_EMPTY_STRING, RMW_TOPIC_INVALID_NOT_ABSOLUTE,
   RMW_TOPIC_INVALID_ENDS_WITH_FORWARD_SLASH,
   RMW_TOPIC_INVALID_CONTAINS_UNALLOWED_CHARACTERS,
   RMW_TOPIC_INVALID_CONTAINS_REPEATED_FORWARD_SLASH,
   RMW_TOPIC_INVALID_NAME_TOKEN_STARTS_WITH_NUMBER}

\* The namespace code each case of the switch stores.
NamespaceResultFor(t_validation_result) ==
  CASE t_validation_result = RMW_TOPIC_INVALID_IS_EMPTY_STRING ->
         RMW_NAMESPACE_INVALID_IS_EMPTY_STRING
    [] t_validation_result = RMW_TOPIC_INVALID_NOT_ABSOLUTE ->
         RMW_NAMESPACE_INVALID_NOT_ABSOLUTE
    [] t_validation_result = RMW_TOPIC_INVALID_ENDS_WITH_FORWARD_SLASH ->
         RMW_NAMESPACE_INVALID_ENDS_WITH_FORWARD_SLASH
    [] t_validation_result = RMW_TOPIC_INVALID_CONTAINS_UNALLOWED_CHARACTERS ->
         RMW_NAMESPACE_INVALID_CONTAINS_UNALLOWED_CHARACTERS
    [] t_validation_result = RMW_TOPIC_INVALID_CONTAINS_REPEATED_FORWARD_SLASH ->
         RMW_NAMESPACE_INVALID_CONTAINS_REPEATED_FORWARD_SLASH
    [] t_validation_result = RMW_TOPIC_INVALID_NAME_TOKEN_STARTS_WITH_NUMBER ->
         RMW_NAMESPACE_INVALID_NAME_TOKEN_STARTS_WITH_NUMBER

rmw_validate_namespace_with_size(nm_null, buf, n, vr_null, ii_null, vr, ii) ==
  IF nm_null THEN Out(RMW_RET_INVALID_ARGUMENT, vr, ii)
  ELSE IF vr_null THEN Out(RMW_RET_INVALID_ARGUMENT, vr, ii)
  ELSE IF IsRootNamespace(buf, n) THEN
    Out(RMW_RET_OK, RMW_NAMESPACE_VALID, ii)
  ELSE
    \* line 90: the topic validator is given the buffer, not namespace_length
    LET t == rmw_validate_full_topic_name(FALSE, buf, FALSE, FALSE, Unset, Unset)
        t_validation_result == t.validation_result
        t_invalid_index == t.invalid_index
    IN
      IF t.ret # RMW_RET_OK THEN Out(t.ret, vr, ii)
      ELSE IF /\ t_validation_result # RMW_TOPIC_VALID
              /\ t_validation_result # RMW_TOPIC_INVALID_TOO_LONG THEN
        IF t_validation_result \notin NamespaceSwitchCases
        THEN Out(RMW_RET_ERROR, vr, ii)
        ELSE Out(RMW_RET_OK, NamespaceResultFor(t_validation_result),
                 SetIndex(ii_null, ii, t_invalid_index))
      ELSE IF n > RMW_NAMESPACE_MAX_LENGTH THEN
        Out(RMW_RET_OK, RMW_NAMESPACE_INVALID_TOO_LONG,
            SetIndex(ii_null, ii, RMW_NAMESPACE_MAX_LENGTH - 1))
      ELSE Out(RMW_RET_OK, RMW_NAMESPACE_VALID, ii)

rmw_validate_namespace(nm_null, buf, vr_null, ii_null, vr, ii) ==
  IF nm_null THEN Out(RMW_RET_INVALID_ARGUMENT, vr, ii)
  ELSE rmw_validate_namespace_with_size(
         nm_null, buf, strlen(buf), vr_null, ii_null, vr, ii)

----------------------------------------------------------------------------
(* rmw_validate_node_name *)

\* A variant with the alphabet of topic names, which lets '/' through.
NodeUnallowedAt_allows_slash(buf, n) ==
  {i \in 0..(n - 1) : /\ ~rcutils_isalnum_no_locale(CharAt(buf, i))
                      /\ CharAt(buf, i) # "_"
                      /\ CharAt(buf, i) # "/"}

\* The indexes at which the loop of lines 81-98 would stop: characters that
\* are neither alphanumeric nor '_'.  The loop returns at the least.
NodeUnallowedAt(buf, n) ==
  {i \in 0..(n - 1) : /\ ~rcutils_isalnum_no_locale(CharAt(buf, i))
                      /\ CharAt(buf, i) # "_"}

rmw_validate_node_name_with_size(nm_null, buf, n, vr_null, ii_null, vr, ii) ==
  IF nm_null THEN Out(RMW_RET_INVALID_ARGUMENT, vr, ii)
  ELSE IF vr_null THEN Out(RMW_RET_INVALID_ARGUMENT, vr, ii)
  ELSE IF n = 0 THEN
    Out(RMW_RET_OK, RMW_NODE_NAME_INVALID_IS_EMPTY_STRING, SetIndex(ii_null, ii, 0))
  ELSE IF NodeUnallowedAt(buf, n) # {} THEN
    Out(RMW_RET_OK, RMW_NODE_NAME_INVALID_CONTAINS_UNALLOWED_CHARACTERS,
        SetIndex(ii_null, ii, LoopExit(NodeUnallowedAt(buf, n))))
  ELSE IF isdigit(CharAt(buf, 0)) THEN
    Out(RMW_RET_OK, RMW_NODE_NAME_INVALID_STARTS_WITH_NUMBER,
        SetIndex(ii_null, ii, 0))
  ELSE IF n > RMW_NODE_NAME_MAX_NAME_LENGTH THEN
    Out(RMW_RET_OK, RMW_NODE_NAME_INVALID_TOO_LONG,
        SetIndex(ii_null, ii, RMW_NODE_NAME_MAX_NAME_LENGTH - 1))
  ELSE Out(RMW_RET_OK, RMW_NODE_NAME_VALID, ii)

rmw_validate_node_name(nm_null, buf, vr_null, ii_null, vr, ii) ==
  IF nm_null THEN Out(RMW_RET_INVALID_ARGUMENT, vr, ii)
  ELSE rmw_validate_node_name_with_size(
         nm_null, buf, strlen(buf), vr_null, ii_null, vr, ii)

----------------------------------------------------------------------------
(* rmw_qos_profile_check_compatible: declared in rmw/qos_profiles.h, its   *)
(* body is not part of the sources; the arguments, the verdicts and the    *)
(* argument checks follow the declaration, the per-policy rules follow the *)
(* specification of the compatibility checker.                             *)

RMW_QOS_POLICY_RELIABILITY_SYSTEM_DEFAULT == 0
RMW_QOS_POLICY_RELIABILITY_RELIABLE == 1
RMW_QOS_POLICY_RELIABILITY_BEST_EFFORT == 2
RMW_QOS_POLICY_RELIABILITY_UNKNOWN == 3
RMW_QOS_POLICY_RELIABILITY_BEST_AVAILABLE == 4

RMW_QOS_POLICY_DURABILITY_SYSTEM_DEFAULT == 0
RMW_QOS_POLICY_DURABILITY_TRANSIENT_LOCAL == 1
RMW_QOS_POLICY_DURABILITY_VOLATILE == 2
RMW_QOS_POLICY_DURABILITY_UNKNOWN == 3
RMW_QOS_POLICY_DURABILITY_BEST_AVAILABLE == 4

RMW_QOS_POLICY_LIVELINESS_SYSTEM_DEFAULT == 0
RMW_QOS_POLICY_LIVELINESS_AUTOMATIC == 1
RMW_QOS_POLICY_LIVELINESS_MANUAL_BY_TOPIC == 3
RMW_QOS_POLICY_LIVELINESS_UNKNOWN == 4
RMW_QOS_POLICY_LIVELINESS_BEST_AVAILABLE == 5

RMW_QOS_COMPATIBILITY_OK == 0
RMW_QOS_COMPATIBILITY_WARNING == 1
RMW_QOS_COMPATIBILITY_ERROR == 2

\* Longest finite duration of a deadline or a lease, in whole units.
MaxDuration == 2
\* Fields changed, in both profiles together, away from predefined profiles.
MaxChanged == 1
\* Largest reason_size below the size that holds every explanation.
MaxReasonSize == 3
\* The reason_size the declaration recommends as more than enough.
ReasonBufferSize == 2048

\* rmw_time_s values by their order: unspecified is zero, infinite is the
\* greatest value and best-available the one right below it.
RMW_DURATION_UNSPECIFIED == 0
RMW_DURATION_INFINITE == MaxDuration + 2
RMW_QOS_DEADLINE_BEST_AVAILABLE == RMW_DURATION_INFINITE - 1
RMW_QOS_LIVELINESS_LEASE_DURATION_BEST_AVAILABLE == RMW_DURATION_INFINITE - 1
RMW_QOS_DEADLINE_DEFAULT == RMW_DURATION_UNSPECIFIED
RMW_QOS_LIVELINESS_LEASE_DURATION_DEFAULT == RMW_DURATION_UNSPECIFIED

\* The policies of rmw_qos_profile_t the compatibility check reads.
QosProfile(rel, dur, dl, liv, lease) ==
  [reliability |-> rel, durability |-> dur, deadline |-> dl,
   liveliness |-> liv, liveliness_lease_duration |-> lease]

rmw_qos_profile_sensor_data ==
  QosProfile(RMW_QOS_POLICY_RELIABILITY_BEST_EFFORT,
             RMW_QOS_POLICY_DURABILITY_VOLATILE, RMW_QOS_DEADLINE_DEFAULT,
             RMW_QOS_POLICY_LIVELINESS_SYSTEM_DEFAULT,
             RMW_QOS_LIVELINESS_LEASE_DURATION_DEFAULT)
rmw_qos_profile_default ==
  QosProfile(RMW_QOS_POLICY_RELIABILITY_RELIABLE,
             RMW_QOS_POLICY_DURABILITY_VOLATILE, RMW_QOS_DEADLINE_DEFAULT,
             RMW_QOS_POLICY_LIVELINESS_SYSTEM_DEFAULT,
             RMW_QOS_LIVELINESS_LEASE_DURATION_DEFAULT)
rmw_qos_profile_system_default ==
  QosProfile(RMW_QOS_POLICY_RELIABILITY_SYSTEM_DEFAULT,
             RMW_QOS_POLICY_DURABILITY_SYSTEM_DEFAULT, RMW_QOS_DEADLINE_DEFAULT,
             RMW_QOS_POLICY_LIVELINESS_SYSTEM_DEFAULT,
             RMW_QOS_LIVELINESS_LEASE_DURATION_DEFAULT)
rmw_qos_profile_best_available ==
  QosProfile(RMW_QOS_POLICY_RELIABILITY_BEST_AVAILABLE,
             RMW_QOS_POLICY_DURABILITY_BEST_AVAILABLE,
             RMW_QOS_DEADLINE_BEST_AVAILABLE,
             RMW_QOS_POLICY_LIVELINESS_BEST_AVAILABLE,
             RMW_QOS_LIVELINESS_LEASE_DURATION_BEST_AVAILABLE)
rmw_qos_profile_unknown ==
  QosProfile(RMW_QOS_POLICY_RELIABILITY_UNKNOWN,
             RMW_QOS_POLICY_DURABILITY_UNKNOWN, RMW_QOS_DEADLINE_DEFAULT,
             RMW_QOS_POLICY_LIVELINESS_UNKNOWN,
             RMW_QOS_LIVELINESS_LEASE_DURATION_DEFAULT)

\* A profile as it is after the endpoint was created: every policy has a
\* resolved value, the deadline and the lease are finite.
QosProfileResolved ==
  QosProfile(RMW_QOS_POLICY_RELIABILITY_RELIABLE,
             RMW_QOS_POLICY_DURABILITY_TRANSIENT_LOCAL, 1,
             RMW_QOS_POLICY_LIVELINESS_AUTOMATIC, 1)

BaseProfiles ==
  {rmw_qos_profile_sensor_data, rmw_qos_profile_default,
   rmw_qos_profile_system_default, rmw_qos_profile_best_available,
   rmw_qos_profile_unknown, QosProfileResolved}

Durations ==
  {RMW_DURATION_UNSPECIFIED, RMW_DURATION_INFINITE - 1, RMW_DURATION_INFINITE}
    \cup (1..MaxDuration)

\* The values each policy field can hold.
QosFieldValues ==
  [reliability |->
     RMW_QOS_POLICY_RELIABILITY_SYSTEM_DEFAULT ..
       RMW_QOS_POLICY_RELIABILITY_BEST_AVAILABLE,
   durability |->
     RMW_QOS_POLICY_DURABILITY_SYSTEM_DEFAULT ..
       RMW_QOS_POLICY_DURABILITY_BEST_AVAILABLE,
   deadline |-> Durations,
   liveliness |->
     {RMW_QOS_POLICY_LIVELINESS_SYSTEM_DEFAULT,
      RMW_QOS_POLICY_LIVELINESS_AUTOMATIC,
      RMW_QOS_POLICY_LIVELINESS_MANUAL_BY_TOPIC,
      RMW_QOS_POLICY_LIVELINESS_UNKNOWN,
      RMW_QOS_POLICY_LIVELINESS_BEST_AVAILABLE},
   liveliness_lease_duration |-> Durations]

\* The profiles one change of one field away from p.
OneFieldChanged(p) ==
  UNION {{[p EXCEPT ![f] = v] : v \in QosFieldValues[f]}
         : f \in DOMAIN QosFieldValues}

\* The pairs <<publisher, subscription>> at most k field changes away from a
\* pair of predefined profiles.
RECURSIVE ProfilePairs(_)
ProfilePairs(k) ==
  IF k = 0 THEN BaseProfiles \X BaseProfiles
  ELSE LET prev == ProfilePairs(k - 1) IN
    prev \cup UNION {{<<q, pr[2]>> : q \in OneFieldChanged(pr[1])}
                       \cup {<<pr[1], q>> : q \in OneFieldChanged(pr[2])}
                     : pr \in prev}

\* The values that stand for a policy not yet resolved.
ReliabilitySentinels ==
  {RMW_QOS_POLICY_RELIABILITY_SYSTEM_DEFAULT, RMW_QOS_POLICY_RELIABILITY_UNKNOWN,
   RMW_QOS_POLICY_RELIABILITY_BEST_AVAILABLE}
DurabilitySentinels ==
  {RMW_QOS_POLICY_DURABILITY_SYSTEM_DEFAULT, RMW_QOS_POLICY_DURABILITY_UNKNOWN,
   RMW_QOS_POLICY_DURABILITY_BEST_AVAILABLE}
LivelinessSentinels ==
  {RMW_QOS_POLICY_LIVELINESS_SYSTEM_DEFAULT, RMW_QOS_POLICY_LIVELINESS_UNKNOWN,
   RMW_QOS_POLICY_LIVELINESS_BEST_AVAILABLE}

\* a duration that is neither unspecified nor infinite nor best-available
IsFiniteDuration(d) == d \in 1..MaxDuration

\* A variant that takes system-default for a value that conflicts with
\* nothing.
ReliabilityVerdict_default_ok(pub, sub) ==
  IF {pub.reliability, sub.reliability}
       \cap {RMW_QOS_POLICY_RELIABILITY_UNKNOWN,
             RMW_QOS_POLICY_RELIABILITY_BEST_AVAILABLE} # {}
  THEN RMW_QOS_COMPATIBILITY_WARNING
  ELSE IF /\ pub.reliability = RMW_QOS_POLICY_RELIABILITY_BEST_EFFORT
          /\ sub.reliability = RMW_QOS_POLICY_RELIABILITY_RELIABLE
  THEN RMW_QOS_COMPATIBILITY_ERROR
  ELSE RMW_QOS_COMPATIBILITY_OK

\* A variant that reports the mismatch in the direction that is compatible.
ReliabilityVerdict_reversed(pub, sub) ==
  IF pub.reliability \in ReliabilitySentinels
       \/ sub.reliability \in ReliabilitySentinels
  THEN RMW_QOS_COMPATIBILITY_WARNING
  ELSE IF /\ pub.reliability = RMW_QOS_POLICY_RELIABILITY_RELIABLE
          /\ sub.reliability = RMW_QOS_POLICY_RELIABILITY_BEST_EFFORT
  THEN RMW_QOS_COMPATIBILITY_ERROR
  ELSE RMW_QOS_COMPATIBILITY_OK

\* Reliability: a best-effort publisher cannot serve a reliable subscription;
\* an unresolved value on either side leaves the pairing undecided.
ReliabilityVerdict(pub, sub) ==
  IF pub.reliability \in ReliabilitySentinels
       \/ sub.reliability \in ReliabilitySentinels
  THEN RMW_QOS_COMPATIBILITY_WARNING
  ELSE IF /\ pub.reliability = RMW_QOS_POLICY_RELIABILITY_BEST_EFFORT
          /\ sub.reliability = RMW_QOS_POLICY_RELIABILITY_RELIABLE
  THEN RMW_QOS_COMPATIBILITY_ERROR
  ELSE RMW_QOS_COMPATIBILITY_OK

\* A variant that tests the mismatch before the unresolved values.
DurabilityVerdict_error_first(pub, sub) ==
  IF /\ pub.durability \in
          {RMW_QOS_POLICY_DURABILITY_VOLATILE} \cup DurabilitySentinels
     /\ sub.durability = RMW_QOS_POLICY_DURABILITY_TRANSIENT_LOCAL
  THEN RMW_QOS_COMPATIBILITY_ERROR
  ELSE IF pub.durability \in DurabilitySentinels
            \/ sub.durability \in DurabilitySentinels
  THEN RMW_QOS_COMPATIBILITY_WARNING
  ELSE RMW_QOS_COMPATIBILITY_OK

\* Durability: a volatile publisher cannot serve a transient-local
\* subscription; an unresolved value on either side leaves it undecided.
DurabilityVerdict(pub, sub) ==
  IF pub.durability \in DurabilitySentinels
       \/ sub.durability \in DurabilitySentinels
  THEN RMW_QOS_COMPATIBILITY_WARNING
  ELSE IF /\ pub.durability = RMW_QOS_POLICY_DURABILITY_VOLATILE
          /\ sub.durability = RMW_QOS_POLICY_DURABILITY_TRANSIENT_LOCAL
  THEN RMW_QOS_COMPATIBILITY_ERROR
  ELSE RMW_QOS_COMPATIBILITY_OK

\* Deadline: two finite deadlines conflict when the publisher's is the
\* greater; unspecified and infinite are compatible with anything.
DeadlineVerdict(pub, sub) ==
  IF pub.deadline = RMW_QOS_DEADLINE_BEST_AVAILABLE
       \/ sub.deadline = RMW_QOS_DEADLINE_BEST_AVAILABLE
  THEN RMW_QOS_COMPATIBILITY_WARNING
  ELSE IF /\ IsFiniteDuration(pub.deadline) /\ IsFiniteDuration(sub.deadline)
          /\ pub.deadline > sub.deadline
  THEN RMW_QOS_COMPATIBILITY_ERROR
  ELSE RMW_QOS_COMPATIBILITY_OK

\* Liveliness: the subscription may not ask for a stricter kind than the
\* publisher offers, nor for a shorter lease.
LivelinessVerdict(pub, sub) ==
  IF \/ pub.liveliness \in LivelinessSentinels
     \/ sub.liveliness \in LivelinessSentinels
     \/ pub.liveliness_lease_duration =
          RMW_QOS_LIVELINESS_LEASE_DURATION_BEST_AVAILABLE
     \/ sub.liveliness_lease_duration =
          RMW_QOS_LIVELINESS_LEASE_DURATION_BEST_AVAILABLE
  THEN RMW_QOS_COMPATIBILITY_WARNING
  ELSE IF \/ /\ pub.liveliness = RMW_QOS_POLICY_LIVELINESS_AUTOMATIC
             /\ sub.liveliness = RMW_QOS_POLICY_LIVELINESS_MANUAL_BY_TOPIC
          \/ /\ IsFiniteDuration(pub.liveliness_lease_duration)
             /\ IsFiniteDuration(sub.liveliness_lease_duration)
             /\ pub.liveliness_lease_duration > sub.liveliness_lease_duration
  THEN RMW_QOS_COMPATIBILITY_ERROR
  ELSE RMW_QOS_COMPATIBILITY_OK

\* The policies in the order they are evaluated.
QosPolicies == <<"reliability", "durability", "deadline", "liveliness">>

PolicyVerdict(policy, pub, sub) ==
  CASE policy = "reliability" -> ReliabilityVerdict(pub, sub)
    [] policy = "durability" -> DurabilityVerdict(pub, sub)
    [] policy = "deadline" -> DeadlineVerdict(pub, sub)
    [] policy = "liveliness" -> LivelinessVerdict(pub, sub)

\* The policies, in order, whose verdict is v.
RECURSIVE PoliciesWith(_, _, _, _)
PoliciesWith(v, pub, sub, i) ==
  IF i > Len(QosPolicies) THEN <<>>
  ELSE (IF PolicyVerdict(QosPolicies[i], pub, sub) = v
        THEN <<QosPolicies[i]>> ELSE <<>>)
       \o PoliciesWith(v, pub, sub, i + 1)

\* A variant that stops at the first incompatible policy.
WorstVerdict_first_error(pub, sub) ==
  IF ReliabilityVerdict(pub, sub) = RMW_QOS_COMPATIBILITY_ERROR
  THEN RMW_QOS_COMPATIBILITY_ERROR
  ELSE IF PoliciesWith(RMW_QOS_COMPATIBILITY_WARNING, pub, sub, 1) # <<>>
  THEN RMW_QOS_COMPATIBILITY_WARNING
  ELSE IF PoliciesWith(RMW_QOS_COMPATIBILITY_ERROR, pub, sub, 1) # <<>>
  THEN RMW_QOS_COMPATIBILITY_ERROR
  ELSE RMW_QOS_COMPATIBILITY_OK

\* The verdict of the pairing: the worst verdict of any policy.
WorstVerdict(pub, sub) ==
  IF PoliciesWith(RMW_QOS_COMPATIBILITY_ERROR, pub, sub, 1) # <<>>
  THEN RMW_QOS_COMPATIBILITY_ERROR
  ELSE IF PoliciesWith(RMW_QOS_COMPATIBILITY_WARNING, pub, sub, 1) # <<>>
  THEN RMW_QOS_COMPATIBILITY_WARNING
  ELSE RMW_QOS_COMPATIBILITY_OK

\* One explanation: its class and the policy it names, two characters of
\* the reason text.
ReasonOf(v, policy) ==
  <<IF v = RMW_QOS_COMPATIBILITY_ERROR THEN "ERROR" ELSE "WARNING", policy>>

\* The explanations of the policies ps with verdict v, separated by ';',
\* each preceded by one when first is FALSE.
RECURSIVE JoinReasons(_, _, _)
JoinReasons(v, ps, first) ==
  IF ps = <<>> THEN <<>>
  ELSE (IF first THEN <<>> ELSE <<";">>) \o ReasonOf(v, Head(ps))
       \o JoinReasons(v, Tail(ps), FALSE)

\* The whole explanation: every error, then every warning.
ReasonText(pub, sub) ==
  LET errors == PoliciesWith(RMW_QOS_COMPATIBILITY_ERROR, pub, sub, 1)
      warnings == PoliciesWith(RMW_QOS_COMPATIBILITY_WARNING, pub, sub, 1)
  IN JoinReasons(RMW_QOS_COMPATIBILITY_ERROR, errors, TRUE)
     \o JoinReasons(RMW_QOS_COMPATIBILITY_WARNING, warnings, errors = <<>>)

\* A variant that copies the whole explanation whatever the buffer holds.
WriteReason_unbounded(text, reason_sz) == text

\* What is written to a buffer of reason_sz characters: the explanation, cut
\* where the buffer ends.
WriteReason(text, reason_sz) ==
  SubSeq(text, 1, IF Len(text) < reason_sz THEN Len(text) ELSE reason_sz)

\* A variant that lets a NULL reason with a size through.
QosArgumentsInvalid_ignores_reason(compat_null, rsn_null, reason_sz) ==
  compat_null

\* The argument checks of the declaration.
QosArgumentsInvalid(compat_null, rsn_null, reason_sz) ==
  compat_null \/ (rsn_null /\ reason_sz # 0)

rmw_qos_profile_check_compatible(pub, sub, compat_null, compat, rsn_null, rsn, reason_sz) ==
  IF QosArgumentsInvalid(compat_null, rsn_null, reason_sz)
  THEN [ret |-> RMW_RET_INVALID_ARGUMENT, compatibility |-> compat,
        reason |-> rsn]
  ELSE [ret |-> RMW_RET_OK,
        compatibility |-> WorstVerdict(pub, sub),
        reason |-> IF rsn_null THEN rsn
                   ELSE WriteReason(ReasonText(pub, sub), reason_sz)]

\* No compatibility check is in progress or was made.
QosIdle ==
  /\ publisher_profile = rmw_qos_profile_system_default
  /\ subscription_profile = rmw_qos_profile_system_default
  /\ compatibility_null = FALSE
  /\ reason_null = FALSE
  /\ reason_size = 0
  /\ compatibility = Unset
  /\ reason = <<>>

----------------------------------------------------------------------------
(* The options structures: rmw_discovery_options_t (discovery_options.c)   *)
(* and rmw_security_options_t (security_options.c).  A pointer is NULL or  *)
(* the index of a block of the heap; an allocator is "null" (a NULL        *)
(* pointer), "zero" (a zeroed rcutils_allocator_t, not valid) or "valid".  *)

RMW_RET_BAD_ALLOC == 10

RMW_AUTOMATIC_DISCOVERY_RANGE_NOT_SET == 0
RMW_AUTOMATIC_DISCOVERY_RANGE_OFF == 1
RMW_AUTOMATIC_DISCOVERY_RANGE_LOCALHOST == 2
RMW_AUTOMATIC_DISCOVERY_RANGE_SUBNET == 3
RMW_AUTOMATIC_DISCOVERY_RANGE_SYSTEM_DEFAULT == 4

RMW_SECURITY_ENFORCEMENT_PERMISSIVE == 0
RMW_SECURITY_ENFORCEMENT_ENFORCE == 1

\* The most static peers an init asks for, the most calls of a behaviour.
MaxPeers == 2
MaxCalls == 3

NULL == 0

\* The values of rmw_automatic_discovery_range_t, of
\* rmw_security_enforcement_policy_t, the allocator arguments and the
\* security root paths a caller passes.
DiscoveryRanges ==
  {RMW_AUTOMATIC_DISCOVERY_RANGE_NOT_SET, RMW_AUTOMATIC_DISCOVERY_RANGE_OFF,
   RMW_AUTOMATIC_DISCOVERY_RANGE_LOCALHOST,
   RMW_AUTOMATIC_DISCOVERY_RANGE_SUBNET,
   RMW_AUTOMATIC_DISCOVERY_RANGE_SYSTEM_DEFAULT}
EnforcementPolicies ==
  {RMW_SECURITY_ENFORCEMENT_PERMISSIVE, RMW_SECURITY_ENFORCEMENT_ENFORCE}
AllocatorArgs == {"null", "zero", "valid"}
RootPaths == {"/keys"}

rcutils_allocator_is_valid(allocator) == allocator = "valid"

\* allocate: a new block at the end of the heap; its address is its index.
\* A block of static peers holds one peer_address per peer, the characters
\* before its first NUL (all RMW_DISCOVERY_OPTIONS_STATIC_PEERS_MAX_LENGTH
\* of them when the array has no NUL); zero_allocate leaves them empty.
Allocated(h, kind, content) ==
  Append(h, [kind |-> kind, content |-> content, frees |-> 0])

\* deallocate(pointer): free(NULL) does nothing, a block counts its frees.
deallocate(h, pointer) ==
  IF pointer = NULL THEN h
  ELSE [h EXCEPT ![pointer].frees = @ + 1]

rmw_get_zero_initialized_discovery_options ==
  [automatic_discovery_range |-> RMW_AUTOMATIC_DISCOVERY_RANGE_NOT_SET,
   static_peers |-> NULL,
   static_peers_count |-> 0,
   allocator |-> "zero"]

\* rmw_discovery_options_init: the result is [ret, options, heap];
\* allocation_fails is what zero_allocate does when it is reached.
rmw_discovery_options_init(options_null, options, size, allocator, allocation_fails, h) ==
  LET ranged ==
        IF options.automatic_discovery_range
             = RMW_AUTOMATIC_DISCOVERY_RANGE_NOT_SET
        THEN [options EXCEPT !.automatic_discovery_range =
                               RMW_AUTOMATIC_DISCOVERY_RANGE_LOCALHOST]
        ELSE options
  IN
  IF options_null
  THEN [ret |-> RMW_RET_INVALID_ARGUMENT, options |-> options, heap |-> h]
  ELSE IF ~rcutils_allocator_is_valid(allocator)
  THEN [ret |-> RMW_RET_INVALID_ARGUMENT, options |-> options, heap |-> h]
  ELSE IF 0 # options.static_peers_count \/ NULL # options.static_peers
  THEN [ret |-> RMW_RET_INVALID_ARGUMENT, options |-> options, heap |-> h]
  ELSE IF size = 0
  THEN [ret |-> RMW_RET_OK, options |-> ranged, heap |-> h]
  ELSE IF allocation_fails
  THEN [ret |-> RMW_RET_BAD_ALLOC,
        options |-> [ranged EXCEPT !.static_peers = NULL], heap |-> h]
  ELSE [ret |-> RMW_RET_OK,
        options |-> [ranged EXCEPT !.static_peers = Len(h) + 1,
                                   !.static_peers_count = size,
                                   !.allocator = allocator],
        heap |-> Allocated(h, "peers", [i \in 1..size |-> <<>>])]

rmw_discovery_options_fini_keeps_range(options_null, options, h) ==
  IF options_null
  THEN [ret |-> RMW_RET_INVALID_ARGUMENT, options |-> options, heap |-> h]
  ELSE IF options.static_peers_count > 0
          /\ ~rcutils_allocator_is_valid(options.allocator)
  THEN [ret |-> RMW_RET_INVALID_ARGUMENT, options |-> options, heap |-> h]
  ELSE [ret |-> RMW_RET_OK,
        options |-> [rmw_get_zero_initialized_discovery_options
                       EXCEPT !.automatic_discovery_range =
                                options.automatic_discovery_range],
        heap |-> IF options.static_peers_count > 0
                 THEN deallocate(h, options.static_peers) ELSE h]

rmw_discovery_options_fini(options_null, options, h) ==
  IF options_null
  THEN [ret |-> RMW_RET_INVALID_ARGUMENT, options |-> options, heap |-> h]
  ELSE IF options.static_peers_count > 0
          /\ ~rcutils_allocator_is_valid(options.allocator)
  THEN [ret |-> RMW_RET_INVALID_ARGUMENT, options |-> options, heap |-> h]
  ELSE [ret |-> RMW_RET_OK,
        options |-> rmw_get_zero_initialized_discovery_options,
        heap |-> IF options.static_peers_count > 0
                 THEN deallocate(h, options.static_peers) ELSE h]

rmw_get_zero_initialized_security_options ==
  [enforce_security |-> 0, security_root_path |-> NULL]

rmw_get_default_security_options ==
  [enforce_security |-> RMW_SECURITY_ENFORCEMENT_PERMISSIVE,
   security_root_path |-> NULL]

\* rmw_security_options_set_root_path: the result is [ret, options, heap];
\* allocation_fails is what rcutils_strdup does when it is reached.
rmw_security_options_set_root_path(path_null, path, allocator, options_null, options, allocation_fails, h) ==
  IF path_null \/ ~rcutils_allocator_is_valid(allocator) \/ options_null
  THEN [ret |-> RMW_RET_INVALID_ARGUMENT, options |-> options, heap |-> h]
  ELSE IF allocation_fails
  THEN [ret |-> RMW_RET_BAD_ALLOC, options |-> options, heap |-> h]
  ELSE [ret |-> RMW_RET_OK,
        options |-> [options EXCEPT !.security_root_path = Len(h) + 1],
        heap |-> deallocate(Allocated(h, "path", path), options.security_root_path)]

\* rmw_security_options_copy without the deallocate of the destination's
\* old path.
rmw_security_options_copy_keeps_old_path(src_null, src, allocator, dst_null, dst, allocation_fails, h) ==
  IF src_null \/ ~rcutils_allocator_is_valid(allocator) \/ dst_null
  THEN [ret |-> RMW_RET_INVALID_ARGUMENT, options |-> dst, heap |-> h]
  ELSE IF src.security_root_path # NULL /\ allocation_fails
  THEN [ret |-> RMW_RET_BAD_ALLOC, options |-> dst, heap |-> h]
  ELSE LET copied == IF src.security_root_path = NULL THEN h
                     ELSE Allocated(h, "path",
                                    h[src.security_root_path].content)
           new_root_path == IF src.security_root_path = NULL THEN NULL
                            ELSE Len(h) + 1
       IN [ret |-> RMW_RET_OK,
           options |-> [enforce_security |-> src.enforce_security,
                        security_root_path |-> new_root_path],
           heap |-> copied]

\* rmw_security_options_copy: the result is [ret, options, heap], options
\* the destination; rcutils_strdup of a NULL path returns NULL, which is
\* no failure; allocation_fails is what it does with a path.
rmw_security_options_copy(src_null, src, allocator, dst_null, dst, allocation_fails, h) ==
  IF src_null \/ ~rcutils_allocator_is_valid(allocator) \/ dst_null
  THEN [ret |-> RMW_RET_INVALID_ARGUMENT, options |-> dst, heap |-> h]
  ELSE IF src.security_root_path # NULL /\ allocation_fails
  THEN [ret |-> RMW_RET_BAD_ALLOC, options |-> dst, heap |-> h]
  ELSE LET copied == IF src.security_root_path = NULL THEN h
                     ELSE Allocated(h, "path",
                                    h[src.security_root_path].content)
           new_root_path == IF src.security_root_path = NULL THEN NULL
                            ELSE Len(h) + 1
       IN [ret |-> RMW_RET_OK,
           options |-> [enforce_security |-> src.enforce_security,
                        security_root_path |-> new_root_path],
           heap |-> deallocate(copied, dst.security_root_path)]

rmw_security_options_fini(options_null, options, allocator, h) ==
  IF options_null \/ ~rcutils_allocator_is_valid(allocator)
  THEN [ret |-> RMW_RET_INVALID_ARGUMENT, options |-> options, heap |-> h]
  ELSE [ret |-> RMW_RET_OK,
        options |-> rmw_get_zero_initialized_security_options,
        heap |-> deallocate(h, options.security_root_path)]

RMW_DISCOVERY_OPTIONS_STATIC_PEERS_MAX_LENGTH == 256

\* The peer addresses a caller writes: empty, short ones, the longest one
\* that leaves room for the NUL, and one that fills the array.
PeerAddresses ==
  {<<>>, <<"a">>, <<"1">>,
   [i \in 1..(RMW_DISCOVERY_OPTIONS_STATIC_PEERS_MAX_LENGTH - 1) |-> "a"],
   [i \in 1..RMW_DISCOVERY_OPTIONS_STATIC_PEERS_MAX_LENGTH |-> "a"]}

\* The first n characters of s, or all of s when it is shorter.
Prefix(s, n) == SubSeq(s, 1, IF Len(s) < n THEN Len(s) ELSE n)

\* strncpy(dst, src, n): the characters of src before its NUL, n at most.
strncpy(src, n) == Prefix(src, n)

\* array[index] = '\0', index counted from 0.
Terminate(array, index) == Prefix(array, index)

\* strncmp(l, r, n): 0 when the first n characters agree, not 0 otherwise.
strncmp(l, r, n) == IF Prefix(l, n) = Prefix(r, n) THEN 0 ELSE 1

\* rmw_discovery_options_equal: the result is [ret, result].
rmw_discovery_options_equal(left_null, left, right_null, right, result_null, res, h) ==
  IF left_null \/ right_null \/ result_null
  THEN [ret |-> RMW_RET_INVALID_ARGUMENT, result |-> res]
  ELSE IF left.automatic_discovery_range # right.automatic_discovery_range
  THEN [ret |-> RMW_RET_OK, result |-> FALSE]
  ELSE IF left.static_peers_count # right.static_peers_count
  THEN [ret |-> RMW_RET_OK, result |-> FALSE]
  ELSE IF left.static_peers_count = 0
  THEN [ret |-> RMW_RET_OK, result |-> TRUE]
  ELSE IF left.static_peers = NULL \/ right.static_peers = NULL
  THEN [ret |-> RMW_RET_INVALID_ARGUMENT, result |-> res]
  ELSE [ret |-> RMW_RET_OK,
        result |->
          \A ii \in 1..left.static_peers_count :
            strncmp(h[left.static_peers].content[ii],
                    h[right.static_peers].content[ii],
                    RMW_DISCOVERY_OPTIONS_STATIC_PEERS_MAX_LENGTH) = 0]

\* rmw_discovery_options_copy: the result is [ret, options, heap], options
\* being what dst holds afterwards; same says that src and dst are one
\* object.
rmw_discovery_options_copy(src_null, src, allocator, dst_null, dst, same, allocation_fails, h) ==
  LET init == rmw_discovery_options_init(FALSE, dst, src.static_peers_count,
                                         allocator, allocation_fails, h)
      ranged == [init.options EXCEPT !.automatic_discovery_range =
                                       src.automatic_discovery_range]
      copied == [i \in 1..src.static_peers_count |->
                   Terminate(
                     strncpy(h[src.static_peers].content[i],
                             RMW_DISCOVERY_OPTIONS_STATIC_PEERS_MAX_LENGTH),
                     RMW_DISCOVERY_OPTIONS_STATIC_PEERS_MAX_LENGTH - 1)]
  IN
  IF src_null \/ ~rcutils_allocator_is_valid(allocator) \/ dst_null \/ same
  THEN [ret |-> RMW_RET_INVALID_ARGUMENT, options |-> dst, heap |-> h]
  ELSE IF init.ret # RMW_RET_OK
  THEN init
  ELSE [ret |-> RMW_RET_OK,
        options |-> ranged,
        heap |-> IF src.static_peers_count = 0 THEN init.heap
                 ELSE [init.heap EXCEPT ![ranged.static_peers].content =
                                          copied]]

\* No copy or comparison of options was made.
CopyIdle ==
  /\ discovery_dst = rmw_get_zero_initialized_discovery_options
  /\ result = Unset
  /\ args = <<>>

\* No options structure was touched.
OptionsIdle ==
  /\ discovery_options = rmw_get_zero_initialized_discovery_options
  /\ security_options = rmw_get_zero_initialized_security_options
  /\ heap = <<>>
  /\ calls = 0
  /\ CopyIdle

----------------------------------------------------------------------------
(* The array structures: rmw_names_and_types_t (names_and_types.c) and     *)
(* rmw_topic_endpoint_info_array_t (topic_endpoint_info_array.c).          *)
(* rcutils_string_array_init and rcutils_string_array_fini belong to       *)
(* rcutils: a call is given the rcutils_ret_t it returns.                  *)

\* The largest size an array is initialized with.
MaxArraySize == 2

RcutilsRets ==
  {"RCUTILS_RET_OK", "RCUTILS_RET_INVALID_ARGUMENT", "RCUTILS_RET_BAD_ALLOC",
   "RCUTILS_RET_ERROR"}

rmw_convert_rcutils_ret_to_rmw_ret(rcutils_ret) ==
  CASE rcutils_ret = "RCUTILS_RET_OK" -> RMW_RET_OK
    [] rcutils_ret = "RCUTILS_RET_INVALID_ARGUMENT" -> RMW_RET_INVALID_ARGUMENT
    [] rcutils_ret = "RCUTILS_RET_BAD_ALLOC" -> RMW_RET_BAD_ALLOC
    [] rcutils_ret = "RCUTILS_RET_ERROR" -> RMW_RET_ERROR
    [] OTHER -> RMW_RET_ERROR

rcutils_get_zero_initialized_string_array == [size |-> 0, data |-> NULL]

\* rcutils_string_array_init returning rcutils_ret: on RCUTILS_RET_OK the
\* array holds size strings in a new block, NULL for no strings.
rcutils_string_array_init(array, size, rcutils_ret, h) ==
  IF rcutils_ret # "RCUTILS_RET_OK"
  THEN [ret |-> rcutils_ret, array |-> array, heap |-> h]
  ELSE IF size = 0
  THEN [ret |-> rcutils_ret, array |-> [size |-> 0, data |-> NULL],
        heap |-> h]
  ELSE [ret |-> rcutils_ret,
        array |-> [size |-> size, data |-> Len(h) + 1],
        heap |-> Allocated(h, "strings", [i \in 1..size |-> NULL])]

\* deallocate of each of pointers, in order.
RECURSIVE DeallocateEach(_, _)
DeallocateEach(h, pointers) ==
  IF pointers = <<>> THEN h
  ELSE DeallocateEach(deallocate(h, Head(pointers)), Tail(pointers))

\* rcutils_string_array_fini: the strings and the block of their pointers
\* are released, the array zeroed.
rcutils_string_array_fini(array, h) ==
  [array |-> rcutils_get_zero_initialized_string_array,
   heap |-> IF array.data = NULL THEN h
            ELSE deallocate(DeallocateEach(h, h[array.data].content),
                            array.data)]

rmw_get_zero_initialized_names_and_types ==
  [names |-> rcutils_get_zero_initialized_string_array, types |-> NULL]

\* rmw_names_and_types_init: the result is [ret, array, heap]; rcutils_ret
\* is what rcutils_string_array_init returns and allocation_fails what
\* zero_allocate does, when they are reached.
rmw_names_and_types_init(array_null, array, size, allocator_null, rcutils_ret, allocation_fails, h) ==
  LET names == rcutils_string_array_init(array.names, size, rcutils_ret, h)
      finied == rcutils_string_array_fini(names.array, names.heap)
  IN
  IF allocator_null \/ array_null
  THEN [ret |-> RMW_RET_INVALID_ARGUMENT, array |-> array, heap |-> h]
  ELSE IF names.ret # "RCUTILS_RET_OK"
  THEN [ret |-> rmw_convert_rcutils_ret_to_rmw_ret(names.ret),
        array |-> [array EXCEPT !.names = names.array],
        heap |-> names.heap]
  ELSE IF allocation_fails /\ size # 0
  THEN [ret |-> RMW_RET_BAD_ALLOC,
        array |-> [names |-> finied.array, types |-> NULL],
        heap |-> finied.heap]
  ELSE IF allocation_fails
  THEN [ret |-> RMW_RET_OK,
        array |-> [names |-> names.array, types |-> NULL],
        heap |-> names.heap]
  ELSE [ret |-> RMW_RET_OK,
        array |-> [names |-> names.array, types |-> Len(names.heap) + 1],
        heap |-> Allocated(names.heap, "string_arrays",
                   [i \in 1..size |->
                      rcutils_get_zero_initialized_string_array])]

rmw_get_zero_initialized_topic_endpoint_info_array ==
  [size |-> 0, info_array |-> NULL]

\* rmw_topic_endpoint_info_array_init_with_size: the result is
\* [ret, array, heap]; allocation_fails is what allocate does when it is
\* reached.
rmw_topic_endpoint_info_array_init_with_size(array_null, array, size, allocator_null, allocation_fails, h) ==
  IF allocator_null \/ array_null
  THEN [ret |-> RMW_RET_INVALID_ARGUMENT, array |-> array, heap |-> h]
  ELSE IF allocation_fails
  THEN [ret |-> RMW_RET_BAD_ALLOC,
        array |-> [array EXCEPT !.info_array = NULL], heap |-> h]
  ELSE [ret |-> RMW_RET_OK,
        array |-> [size |-> size, info_array |-> Len(h) + 1],
        heap |-> Allocated(h, "endpoint_infos",
                   [i \in 1..size |-> "zero_initialized"])]

\* No array structure was touched.
ArraysIdle ==
  /\ names_and_types = rmw_get_zero_initialized_names_and_types
  /\ topic_endpoint_info_array =
       rmw_get_zero_initialized_topic_endpoint_info_array

(* rmw_topic_endpoint_info_set_gid (topic_endpoint_info.c): endpoint_gid   *)
(* is the array of RMW_GID_STORAGE_SIZE bytes of rmw_topic_endpoint_info_t *)

RMW_GID_STORAGE_SIZE == 16

\* The sizes a caller passes: all that fit and the first that does not.
GidSizes == 0..(RMW_GID_STORAGE_SIZE + 1)

\* The gid buffers of n bytes a caller passes: all 0xFF, all zero, and the
\* bytes 1, 2, .. n.
Gids(n) ==
  {[i \in 1..n |-> 255], [i \in 1..n |-> 0], [i \in 1..n |-> i]}

\* What endpoint_gid holds before the call: zeros, or an earlier gid.
EndpointGids ==
  {[i \in 1..RMW_GID_STORAGE_SIZE |-> 0],
   [i \in 1..RMW_GID_STORAGE_SIZE |-> 170]}

\* memset(s, c, n) and memcpy(dest, src, n) on arrays indexed from 1.
memset(s, c, n) == [i \in 1..Len(s) |-> IF i <= n THEN c ELSE s[i]]
memcpy(dest, src, n) == [i \in 1..Len(dest) |-> IF i <= n THEN src[i] ELSE dest[i]]

\* rmw_topic_endpoint_info_set_gid: the set of results [ret, endpoint_gid]
\* the call can have.  gid is not tested for NULL: memcpy from a NULL gid is
\* undefined, the call then does not return (ret stays Unset) or returns
\* with whatever bytes were read.
rmw_topic_endpoint_info_set_gid(info_null, endpoint, gid_null, gid, size) ==
  LET zeroed == memset(endpoint, 0, RMW_GID_STORAGE_SIZE)
  IN
  IF info_null
  THEN {[ret |-> RMW_RET_INVALID_ARGUMENT, endpoint_gid |-> endpoint]}
  ELSE IF size > RMW_GID_STORAGE_SIZE
  THEN {[ret |-> RMW_RET_INVALID_ARGUMENT, endpoint_gid |-> endpoint]}
  ELSE IF gid_null
  THEN {[ret |-> Unset, endpoint_gid |-> zeroed]}
       \cup {[ret |-> RMW_RET_OK, endpoint_gid |-> memcpy(zeroed, read, size)] :
               read \in Gids(size)}
  ELSE {[ret |-> RMW_RET_OK, endpoint_gid |-> memcpy(zeroed, gid, size)]}

\* No gid was set.
GidIdle == endpoint_gid = [i \in 1..RMW_GID_STORAGE_SIZE |-> 0]

(* rmw_time_t arithmetic (time.c).  The integers of the code are 64 bits   *)
(* wide and a second has 10^9 nanoseconds; the model keeps the arithmetic  *)
(* of the code on integers IntBits wide and seconds of NsPerSec            *)
(* nanoseconds, so that every rmw_time_t can be drawn.                     *)

\* The width of int64_t and uint64_t, and RCUTILS_S_TO_NS(1), in the model.
IntBits == 7
NsPerSec == 10

INT64_MAX == (2 ^ (IntBits - 1)) - 1
UINT64_MAX == (2 ^ IntBits) - 1

\* Conversion of a value to uint64_t and to int64_t.
ToUint64(x) == x % (2 ^ IntBits)
ToInt64(x) ==
  IF ToUint64(x) > INT64_MAX THEN ToUint64(x) - (2 ^ IntBits)
  ELSE ToUint64(x)

RCUTILS_S_TO_NS(seconds) == seconds * NsPerSec
RCUTILS_NS_TO_S(nanoseconds) == nanoseconds \div NsPerSec

\* RMW_DURATION_INFINITE as the rmw_time_t of time.h: INT64_MAX nanoseconds
\* written as seconds and nanoseconds ({9223372036, 854775807} in 64 bits).
RMW_DURATION_INFINITE_AS_TIME ==
  [sec |-> INT64_MAX \div NsPerSec, nsec |-> INT64_MAX % NsPerSec]

rmw_time_total_nsec_unchecked_sum(time) ==
  LET max_sec == INT64_MAX \div RCUTILS_S_TO_NS(1)
      sec_as_nsec == ToInt64(ToUint64(RCUTILS_S_TO_NS(time.sec)))
  IN IF time.sec > max_sec THEN INT64_MAX
     ELSE ToInt64(ToUint64(sec_as_nsec + time.nsec))

rmw_time_total_nsec(time) ==
  LET max_sec == INT64_MAX \div RCUTILS_S_TO_NS(1)
      sec_as_nsec == ToInt64(ToUint64(RCUTILS_S_TO_NS(time.sec)))
  IN IF time.sec > max_sec THEN INT64_MAX
     ELSE IF time.nsec > ToUint64(INT64_MAX - sec_as_nsec) THEN INT64_MAX
     ELSE ToInt64(ToUint64(sec_as_nsec + time.nsec))

rmw_time_from_nsec_keeps_nsec(nanoseconds) ==
  IF nanoseconds < 0 THEN RMW_DURATION_INFINITE_AS_TIME
  ELSE [sec |-> ToUint64(RCUTILS_NS_TO_S(nanoseconds)),
        nsec |-> ToUint64(nanoseconds)]

rmw_time_from_nsec(nanoseconds) ==
  IF nanoseconds < 0 THEN RMW_DURATION_INFINITE_AS_TIME
  ELSE [sec |-> ToUint64(RCUTILS_NS_TO_S(nanoseconds)),
        nsec |-> ToUint64(nanoseconds % RCUTILS_S_TO_NS(1))]

rmw_time_normalize(time) == rmw_time_from_nsec(rmw_time_total_nsec(time))

\* No time was converted.
TimeIdle ==
  /\ time_in = [sec |-> 0, nsec |-> 0]
  /\ normalized = [sec |-> 0, nsec |-> 0]
  /\ total_nsec = Unset

(* rmw_subscription_content_filter_options_t                               *)
(* (subscription_content_filter_options.c): filter_expression is a string  *)
(* of the heap, expression_parameters a rcutils_string_array_t whose data  *)
(* block holds the pointers to its strings                                 *)

\* The most expression parameters a call is given.
MaxParams == 2

\* The filter expressions and expression parameters a caller passes.
FilterExpressions == {"color = %0", "x > %0 AND y < %1"}
ExpressionParameters == {"'red'", "7"}

\* Where an allocation of rmw_subscription_content_filter_options_init
\* fails: nowhere (0), at the copy of the filter expression
\* (FailsAtExpression), or at the copy of parameter 1, 2, ...
FailsAtExpression == -1
AllocationFailures == {FailsAtExpression} \cup (0..MaxParams)

rmw_get_zero_initialized_content_filter_options ==
  [filter_expression |-> NULL,
   expression_parameters |-> rcutils_get_zero_initialized_string_array]

\* rcutils_strdup of texts[1..n], one new block each, in order.
RECURSIVE StrdupEach(_, _, _)
StrdupEach(h, texts, n) ==
  IF n = 0 THEN h
  ELSE Allocated(StrdupEach(h, texts, n - 1), "string", texts[n])

\* rmw_subscription_content_filter_options_init: the result is
\* [ret, options, heap].  rcutils_ret is what rcutils_string_array_init
\* returns, failure where an allocation fails.
rmw_subscription_content_filter_options_init(expression_null, filter_expression, argc, argv_null, argv, allocator, options_null, options, rcutils_ret, failure, h) ==
  LET \* line 79: the copy of the filter expression
      with_expression == Allocated(h, "string", filter_expression)
      new_filter_expression == Len(h) + 1
      \* lines 89-90
      array == rcutils_string_array_init(options.expression_parameters,
                 argc, rcutils_ret, with_expression)
      \* lines 99-107: the parameters copied before the loop ends or fails
      copied == IF failure \in 1..argc THEN failure - 1 ELSE argc
      with_parameters ==
        [StrdupEach(array.heap, argv, copied)
           EXCEPT ![array.array.data].content =
                    [i \in 1..argc |->
                       IF i <= copied THEN Len(array.heap) + i ELSE NULL]]
      \* lines 116-122
      cleared == rcutils_string_array_fini(array.array, with_parameters)
  IN
  IF expression_null \/ (argc > 0 /\ argv_null)
     \/ ~rcutils_allocator_is_valid(allocator) \/ options_null
  THEN [ret |-> RMW_RET_INVALID_ARGUMENT, options |-> options, heap |-> h]
  ELSE IF failure = FailsAtExpression
  THEN [ret |-> RMW_RET_BAD_ALLOC, options |-> options, heap |-> h]
  ELSE IF argc = 0
  THEN [ret |-> RMW_RET_OK,
        options |-> [options EXCEPT !.filter_expression =
                                      new_filter_expression],
        heap |-> with_expression]
  ELSE IF array.ret # "RCUTILS_RET_OK"
  THEN [ret |-> RMW_RET_BAD_ALLOC,
        options |-> [options EXCEPT !.expression_parameters = array.array],
        heap |-> deallocate(array.heap, new_filter_expression)]
  ELSE IF failure \in 1..argc
  THEN [ret |-> RMW_RET_BAD_ALLOC,
        options |-> [options EXCEPT !.expression_parameters = cleared.array],
        heap |-> deallocate(cleared.heap, new_filter_expression)]
  ELSE [ret |-> RMW_RET_OK,
        options |-> [filter_expression |-> new_filter_expression,
                     expression_parameters |-> array.array],
        heap |-> with_parameters]

\* rmw_subscription_content_filter_options_fini: the result is
\* [ret, options, heap]; fini_ret is what rcutils_string_array_fini returns.
rmw_subscription_content_filter_options_fini(options_null, options, allocator, fini_ret, h) ==
  LET released == deallocate(h, options.filter_expression)
      finied == rcutils_string_array_fini(options.expression_parameters,
                                          released)
  IN
  IF options_null \/ ~rcutils_allocator_is_valid(allocator)
  THEN [ret |-> RMW_RET_INVALID_ARGUMENT, options |-> options, heap |-> h]
  ELSE IF fini_ret # "RCUTILS_RET_OK"
  THEN [ret |-> RMW_RET_ERROR,
        options |-> [options EXCEPT !.filter_expression = NULL],
        heap |-> released]
  ELSE [ret |-> RMW_RET_OK,
        options |-> [filter_expression |-> NULL,
                     expression_parameters |-> finied.array],
        heap |-> finied.heap]

\* rmw_subscription_content_filter_options_set: fini, then init.
rmw_subscription_content_filter_options_set(expression_null, filter_expression, argc, argv_null, argv, allocator, options_null, options, fini_ret, rcutils_ret, failure, h) ==
  LET finied == rmw_subscription_content_filter_options_fini(
                  options_null, options, allocator, fini_ret, h)
  IN IF finied.ret # RMW_RET_OK THEN finied
     ELSE rmw_subscription_content_filter_options_init(
            expression_null, filter_expression, argc, argv_null, argv,
            allocator, options_null, finied.options, rcutils_ret, failure,
            finied.heap)

\* The strings a rcutils_string_array_t points to, "" for a NULL one.
StringsOf(array, h) ==
  [i \in 1..array.size |->
     IF h[array.data].content[i] = NULL THEN ""
     ELSE h[h[array.data].content[i]].content]

\* rmw_subscription_content_filter_options_copy: set of dst from the fields
\* of src, a different object.
rmw_subscription_content_filter_options_copy(src_null, src, allocator, dst_null, dst, fini_ret, rcutils_ret, failure, h) ==
  IF src_null \/ ~rcutils_allocator_is_valid(allocator) \/ dst_null
  THEN [ret |-> RMW_RET_INVALID_ARGUMENT, options |-> dst, heap |-> h]
  ELSE rmw_subscription_content_filter_options_set(
         src.filter_expression = NULL,
         IF src.filter_expression = NULL THEN ""
         ELSE h[src.filter_expression].content,
         src.expression_parameters.size,
         src.expression_parameters.data = NULL,
         StringsOf(src.expression_parameters, h),
         allocator, FALSE, dst, fini_ret, rcutils_ret, failure, h)

\* No content filter options were touched.
FilterIdle ==
  /\ content_filter_options = rmw_get_zero_initialized_content_filter_options
  /\ content_filter_src = rmw_get_zero_initialized_content_filter_options

\* No security options are held as the source of a copy.
SourceIdle == security_src = rmw_get_zero_initialized_security_options

\* The parts of the library other than the validators, the compatibility
\* check and the discovery and security options are untouched.
RestIdle ==
  /\ ArraysIdle
  /\ GidIdle
  /\ TimeIdle
  /\ FilterIdle
  /\ SourceIdle

----------------------------------------------------------------------------
(* The validators as a state machine: Init draws the arguments, one action *)
(* per entry point                                                        *)

Init ==
  /\ op = "none"
  /\ name \in Names
  /\ name_null \in BOOLEAN
  /\ validation_result_null \in BOOLEAN
  /\ invalid_index_null \in BOOLEAN
  \* a NULL name has no characters; NULL pointers are drawn with the
  \* shortest names only
  /\ name_null => name = <<>>
  /\ Len(name) > MaxNullArgs => ~validation_result_null /\ ~invalid_index_null
  /\ name_length = 0
  /\ validation_result = Unset
  /\ invalid_index = Unset
  /\ ret = Unset
  /\ QosIdle
  /\ OptionsIdle
  /\ RestIdle

\* The call returns: out is what the validator leaves behind.
Return(o, n, out) ==
  /\ op = "none"
  /\ op' = o
  /\ name_length' = n
  /\ ret' = out.ret
  /\ validation_result' = out.validation_result
  /\ invalid_index' = out.invalid_index
  /\ UNCHANGED <<name, name_null, validation_result_null, invalid_index_null>>
  /\ UNCHANGED beside_validators

ValidateFullTopicName ==
  Return("topic", strlen(name),
         rmw_validate_full_topic_name(name_null, name, validation_result_null,
           invalid_index_null, validation_result, invalid_index))

ValidateFullTopicNameWithSize ==
  \E n \in SizeArgs(name) :
    Return("topic_with_size", n,
           rmw_validate_full_topic_name_with_size(name_null, name, n,
             validation_result_null, invalid_index_null, validation_result,
             invalid_index))

ValidateNamespace ==
  Return("namespace", strlen(name),
         rmw_validate_namespace(name_null, name, validation_result_null,
           invalid_index_null, validation_result, invalid_index))

ValidateNamespaceWithSize ==
  \E n \in SizeArgs(name) :
    Return("namespace_with_size", n,
           rmw_validate_namespace_with_size(name_null, name, n,
             validation_result_null, invalid_index_null, validation_result,
             invalid_index))

ValidateNodeName ==
  Return("node_name", strlen(name),
         rmw_validate_node_name(name_null, name, validation_result_null,
           invalid_index_null, validation_result, invalid_index))

ValidateNodeNameWithSize ==
  \E n \in SizeArgs(name) :
    Return("node_name_with_size", n,
           rmw_validate_node_name_with_size(name_null, name, n,
             validation_result_null, invalid_index_null, validation_result,
             invalid_index))

Next ==
  \/ ValidateFullTopicName
  \/ ValidateFullTopicNameWithSize
  \/ ValidateNamespace
  \/ ValidateNamespaceWithSize
  \/ ValidateNodeName
  \/ ValidateNodeNameWithSize

Spec == Init /\ [][Next]_vars

TypeOK ==
  /\ op \in {"none", "topic", "topic_with_size", "namespace",
             "namespace_with_size", "node_name", "node_name_with_size"}
  /\ ret \in {Unset, RMW_RET_OK, RMW_RET_ERROR, RMW_RET_INVALID_ARGUMENT}
  /\ name_length \in 0..Len(name)

----------------------------------------------------------------------------
(* The compatibility check as a state machine: one call on a pair of       *)
(* profiles drawn by InitQos                                               *)

\* The reason_size values a call is given.
ReasonSizes == (0..MaxReasonSize) \cup {ReasonBufferSize}

\* No validator call is in progress or was made.
ValidatorIdle ==
  /\ name = <<>>
  /\ name_null = FALSE
  /\ name_length = 0
  /\ validation_result_null = FALSE
  /\ invalid_index_null = FALSE
  /\ validation_result = Unset
  /\ invalid_index = Unset

\* The pairs a call is made with, those drawn with every reason_size, and
\* those drawn with NULL pointers.
AllPairs == ProfilePairs(MaxChanged)
NearPairs == ProfilePairs(MaxChanged - 1)
BasePairs == ProfilePairs(0)

InitQos ==
  /\ op = "none"
  /\ ret = Unset
  /\ ValidatorIdle
  /\ \E pr \in AllPairs :
       /\ publisher_profile = pr[1]
       /\ subscription_profile = pr[2]
       /\ compatibility_null \in BOOLEAN
       /\ reason_null \in BOOLEAN
       /\ reason_size \in ReasonSizes
       \* NULL pointers are drawn with the predefined pairs only, a buffer
       \* too small for the explanation with all pairs but the farthest
       /\ pr \notin BasePairs => ~compatibility_null /\ ~reason_null
       /\ pr \notin NearPairs => reason_size = ReasonBufferSize
  /\ compatibility = Unset
  /\ reason = <<>>
  /\ OptionsIdle
  /\ RestIdle

CheckCompatible ==
  /\ op = "none"
  /\ LET out == rmw_qos_profile_check_compatible(
                  publisher_profile, subscription_profile, compatibility_null,
                  compatibility, reason_null, reason, reason_size)
     IN /\ ret' = out.ret
        /\ compatibility' = out.compatibility
        /\ reason' = out.reason
  /\ op' = "check_compatible"
  /\ UNCHANGED <<publisher_profile, subscription_profile, compatibility_null,
                 reason_null, reason_size>>
  /\ UNCHANGED beside_qos

NextQos == CheckCompatible

SpecQos == InitQos /\ [][NextQos]_vars

----------------------------------------------------------------------------
(* The options structures as a state machine: a caller holds one           *)
(* rmw_discovery_options_t and one rmw_security_options_t, starts from the *)
(* zero-initialized values, writes their public fields and calls init,     *)
(* set_root_path and fini in any order, MaxCalls times                     *)

InitOptions ==
  /\ op = "none"
  /\ ret = Unset
  /\ ValidatorIdle
  /\ QosIdle
  /\ OptionsIdle
  /\ RestIdle

\* A step of the caller: o is the entry point, out what it leaves behind.
OptionsCall(o, out) ==
  /\ calls < MaxCalls
  /\ calls' = calls + 1
  /\ op' = o
  /\ ret' = out.ret
  /\ heap' = out.heap
  /\ UNCHANGED beside_options

DiscoveryOptionsInit ==
  \E options_null \in BOOLEAN, size \in 0..MaxPeers,
     allocator \in AllocatorArgs, allocation_fails \in BOOLEAN :
    LET out == rmw_discovery_options_init(options_null, discovery_options,
                 size, allocator, allocation_fails, heap)
    IN /\ OptionsCall("discovery_options_init", out)
       /\ discovery_options' = out.options
       /\ UNCHANGED security_options

DiscoveryOptionsFini ==
  \E options_null \in BOOLEAN :
    LET out == rmw_discovery_options_fini(options_null, discovery_options,
                                          heap)
    IN /\ OptionsCall("discovery_options_fini", out)
       /\ discovery_options' = out.options
       /\ UNCHANGED security_options

\* The caller assigns automatic_discovery_range, a public field.
SetDiscoveryRange ==
  \E range \in DiscoveryRanges :
    /\ range # discovery_options.automatic_discovery_range
    /\ OptionsCall("set_discovery_range", [ret |-> ret, heap |-> heap])
    /\ discovery_options' =
         [discovery_options EXCEPT !.automatic_discovery_range = range]
    /\ UNCHANGED security_options

\* The caller assigns enforce_security, a public field.
SetEnforceSecurity ==
  \E policy \in EnforcementPolicies :
    /\ policy # security_options.enforce_security
    /\ OptionsCall("set_enforce_security", [ret |-> ret, heap |-> heap])
    /\ security_options' =
         [security_options EXCEPT !.enforce_security = policy]
    /\ UNCHANGED discovery_options

SecurityOptionsSetRootPath ==
  \E path_null \in BOOLEAN, path \in RootPaths, allocator \in AllocatorArgs,
     options_null \in BOOLEAN, allocation_fails \in BOOLEAN :
    LET out == rmw_security_options_set_root_path(path_null, path, allocator,
                 options_null, security_options, allocation_fails, heap)
    IN /\ OptionsCall("security_options_set_root_path", out)
       /\ security_options' = out.options
       /\ UNCHANGED discovery_options

SecurityOptionsFini ==
  \E options_null \in BOOLEAN, allocator \in AllocatorArgs :
    LET out == rmw_security_options_fini(options_null, security_options,
                                         allocator, heap)
    IN /\ OptionsCall("security_options_fini", out)
       /\ security_options' = out.options
       /\ UNCHANGED discovery_options

NextOptions ==
  \/ DiscoveryOptionsInit
  \/ DiscoveryOptionsFini
  \/ SetDiscoveryRange
  \/ SecurityOptionsSetRootPath
  \/ SecurityOptionsFini
  \/ SetEnforceSecurity

SpecOptions == InitOptions /\ [][NextOptions]_vars

----------------------------------------------------------------------------
(* Copying and comparing discovery options as a state machine: the caller  *)
(* holds a source it has initialized and filled in and a destination, and  *)
(* calls rmw_discovery_options_copy and rmw_discovery_options_equal        *)

\* The sources: any range and up to MaxPeers static peers with any
\* addresses, the peers in the first block of the heap.
DiscoverySources ==
  UNION {
    { [options |-> [automatic_discovery_range |-> range,
                    static_peers |-> IF n = 0 THEN NULL ELSE 1,
                    static_peers_count |-> n,
                    allocator |-> IF n = 0 THEN "zero" ELSE "valid"],
       heap |-> IF n = 0 THEN <<>>
                ELSE Allocated(<<>>, "peers", peers)] :
      range \in DiscoveryRanges, peers \in [1..n -> PeerAddresses] } :
    n \in 0..MaxPeers }

\* The destinations over heap h: zero-initialized, zero-initialized with a
\* range written by the caller, and initialized with one static peer.
DiscoveryDestinations(h) ==
  { [options |-> rmw_get_zero_initialized_discovery_options, heap |-> h],
    [options |-> [rmw_get_zero_initialized_discovery_options
                    EXCEPT !.automatic_discovery_range =
                             RMW_AUTOMATIC_DISCOVERY_RANGE_SUBNET],
     heap |-> h],
    [options |-> [automatic_discovery_range |->
                    RMW_AUTOMATIC_DISCOVERY_RANGE_LOCALHOST,
                  static_peers |-> Len(h) + 1,
                  static_peers_count |-> 1,
                  allocator |-> "valid"],
     heap |-> Allocated(h, "peers", <<<<"a">>>>)] }

InitDiscoveryCopy ==
  /\ op = "none"
  /\ ret = Unset
  /\ ValidatorIdle
  /\ QosIdle
  /\ \E src \in DiscoverySources :
       \E dst \in DiscoveryDestinations(src.heap) :
         /\ discovery_options = src.options
         /\ discovery_dst = dst.options
         /\ heap = dst.heap
  /\ security_options = rmw_get_zero_initialized_security_options
  /\ calls = 0
  /\ result = Unset
  /\ args = <<>>
  /\ RestIdle

DiscoveryOptionsCopy ==
  /\ op = "none"
  /\ \E src_null \in BOOLEAN, dst_null \in BOOLEAN, same \in BOOLEAN,
        allocator \in AllocatorArgs, allocation_fails \in BOOLEAN :
       LET out == rmw_discovery_options_copy(src_null, discovery_options,
                    allocator, dst_null, discovery_dst, same,
                    allocation_fails, heap)
       IN /\ ret' = out.ret
          /\ discovery_dst' = out.options
          /\ heap' = out.heap
          /\ args' = [src_null |-> src_null, dst_null |-> dst_null,
                      same |-> same, allocator |-> allocator]
  /\ op' = "discovery_options_copy"
  /\ calls' = calls + 1
  /\ UNCHANGED <<discovery_options, security_options, result>>
  /\ UNCHANGED <<validator_vars, qos_vars, rest_vars>>

\* rmw_discovery_options_equal(left, right, result), each of left and right
\* being NULL, the source or the destination.
DiscoveryOptionsEqual ==
  /\ op \in {"none", "discovery_options_copy"}
  /\ \E left \in {"null", "src", "dst"}, right \in {"null", "src", "dst"},
        result_null \in BOOLEAN :
       LET object(a) == IF a = "dst" THEN discovery_dst ELSE discovery_options
           out == rmw_discovery_options_equal(left = "null", object(left),
                    right = "null", object(right), result_null, result, heap)
       IN /\ ret' = out.ret
          /\ result' = out.result
          /\ args' = [left |-> left, right |-> right,
                      result_null |-> result_null]
  /\ op' = "discovery_options_equal"
  /\ calls' = calls + 1
  /\ UNCHANGED <<discovery_options, discovery_dst, security_options, heap>>
  /\ UNCHANGED <<validator_vars, qos_vars, rest_vars>>

NextDiscoveryCopy ==
  \/ DiscoveryOptionsCopy
  \/ DiscoveryOptionsEqual

SpecDiscoveryCopy == InitDiscoveryCopy /\ [][NextDiscoveryCopy]_vars

----------------------------------------------------------------------------
(* Copying security options as a state machine: the caller holds a source  *)
(* and a destination and calls rmw_security_options_copy,                  *)
(* rmw_security_options_set_root_path and rmw_security_options_fini on     *)
(* the destination, MaxCalls times                                         *)

\* The root paths a source holds.
SourceRootPaths == {"/keys", "/home/user/keystore"}

\* The sources: either policy, with no root path or with one in the first
\* block of the heap.
SecuritySources ==
  { [options |-> [enforce_security |-> policy, security_root_path |-> NULL],
     heap |-> <<>>] : policy \in EnforcementPolicies }
  \cup { [options |-> [enforce_security |-> policy, security_root_path |-> 1],
          heap |-> Allocated(<<>>, "path", path)] :
          policy \in EnforcementPolicies, path \in SourceRootPaths }

\* The destinations over heap h: zero-initialized, and holding a root path.
SecurityDestinations(h) ==
  { [options |-> rmw_get_zero_initialized_security_options, heap |-> h] }
  \cup { [options |-> [enforce_security |-> RMW_SECURITY_ENFORCEMENT_PERMISSIVE,
                       security_root_path |-> Len(h) + 1],
          heap |-> Allocated(h, "path", path)] : path \in RootPaths }

InitSecurityCopy ==
  /\ op = "none"
  /\ ret = Unset
  /\ ValidatorIdle
  /\ QosIdle
  /\ discovery_options = rmw_get_zero_initialized_discovery_options
  /\ calls = 0
  /\ CopyIdle
  /\ ArraysIdle
  /\ GidIdle
  /\ TimeIdle
  /\ FilterIdle
  /\ \E src \in SecuritySources :
       \E dst \in SecurityDestinations(src.heap) :
         /\ security_src = src.options
         /\ security_options = dst.options
         /\ heap = dst.heap

SecurityOptionsCopy ==
  \E src_null \in BOOLEAN, allocator \in AllocatorArgs,
     dst_null \in BOOLEAN, allocation_fails \in BOOLEAN :
    LET out == rmw_security_options_copy(src_null, security_src, allocator,
                 dst_null, security_options, allocation_fails, heap)
    IN /\ OptionsCall("security_options_copy", out)
       /\ security_options' = out.options
       /\ UNCHANGED discovery_options

NextSecurityCopy ==
  \/ SecurityOptionsCopy
  \/ SecurityOptionsSetRootPath
  \/ SecurityOptionsFini

SpecSecurityCopy == InitSecurityCopy /\ [][NextSecurityCopy]_vars

----------------------------------------------------------------------------
(* The array structures as a state machine: a caller holds one             *)
(* rmw_names_and_types_t and one rmw_topic_endpoint_info_array_t, both     *)
(* zero-initialized at first, and calls their init functions, MaxCalls     *)
(* times: a later call finds what an earlier one left                      *)

InitArrays ==
  /\ op = "none"
  /\ ret = Unset
  /\ ValidatorIdle
  /\ QosIdle
  /\ OptionsIdle
  /\ RestIdle

\* A step of the caller of the arrays: o is the entry point, a its
\* arguments, out what it leaves behind.
ArraysCall(o, a, out) ==
  /\ calls < MaxCalls
  /\ calls' = calls + 1
  /\ op' = o
  /\ args' = a
  /\ ret' = out.ret
  /\ heap' = out.heap
  /\ UNCHANGED <<discovery_options, security_options, discovery_dst, result>>
  /\ UNCHANGED <<validator_vars, qos_vars, gid_vars, time_vars, filter_vars,
                 source_vars>>

NamesAndTypesInit ==
  \E array_null \in BOOLEAN, size \in 0..MaxArraySize,
     allocator_null \in BOOLEAN, rcutils_ret \in RcutilsRets,
     allocation_fails \in BOOLEAN :
    LET out == rmw_names_and_types_init(array_null, names_and_types, size,
                 allocator_null, rcutils_ret, allocation_fails, heap)
    IN /\ ArraysCall("names_and_types_init",
                     [array_null |-> array_null, size |-> size,
                      allocator_null |-> allocator_null], out)
       /\ names_and_types' = out.array
       /\ UNCHANGED topic_endpoint_info_array

TopicEndpointInfoArrayInitWithSize ==
  \E array_null \in BOOLEAN, size \in 0..MaxArraySize,
     allocator_null \in BOOLEAN, allocation_fails \in BOOLEAN :
    LET out == rmw_topic_endpoint_info_array_init_with_size(array_null,
                 topic_endpoint_info_array, size, allocator_null,
                 allocation_fails, heap)
    IN /\ ArraysCall("topic_endpoint_info_array_init_with_size",
                     [array_null |-> array_null, size |-> size,
                      allocator_null |-> allocator_null], out)
       /\ topic_endpoint_info_array' = out.array
       /\ UNCHANGED names_and_types

NextArrays ==
  \/ NamesAndTypesInit
  \/ TopicEndpointInfoArrayInitWithSize

SpecArrays == InitArrays /\ [][NextArrays]_vars

----------------------------------------------------------------------------
(* rmw_topic_endpoint_info_set_gid as a state machine: one call on an      *)
(* endpoint_gid drawn by InitGid                                           *)

InitGid ==
  /\ op = "none"
  /\ ret = Unset
  /\ ValidatorIdle
  /\ QosIdle
  /\ OptionsIdle
  /\ ArraysIdle
  /\ TimeIdle
  /\ FilterIdle
  /\ SourceIdle
  /\ endpoint_gid \in EndpointGids

TopicEndpointInfoSetGid ==
  /\ op = "none"
  /\ \E info_null \in BOOLEAN, gid_null \in BOOLEAN, size \in GidSizes :
       \E gid \in Gids(size) :
         \E out \in rmw_topic_endpoint_info_set_gid(info_null, endpoint_gid,
                      gid_null, gid, size) :
           /\ ret' = out.ret
           /\ endpoint_gid' = out.endpoint_gid
           /\ args' = [info_null |-> info_null, gid_null |-> gid_null,
                       gid |-> gid, size |-> size]
  /\ op' = "topic_endpoint_info_set_gid"
  /\ calls' = calls + 1
  /\ UNCHANGED <<discovery_options, security_options, heap, discovery_dst,
                 result, array_vars, time_vars, filter_vars, source_vars>>
  /\ UNCHANGED <<validator_vars, qos_vars>>

NextGid == TopicEndpointInfoSetGid

SpecGid == InitGid /\ [][NextGid]_vars

----------------------------------------------------------------------------
(* The time functions as a state machine: one call on an rmw_time_t drawn  *)
(* by InitTime among all values of its two uint64_t fields                 *)

InitTime ==
  /\ op = "none"
  /\ ret = Unset
  /\ ValidatorIdle
  /\ QosIdle
  /\ OptionsIdle
  /\ ArraysIdle
  /\ GidIdle
  /\ FilterIdle
  /\ SourceIdle
  /\ time_in \in [sec : 0..UINT64_MAX, nsec : 0..UINT64_MAX]
  /\ normalized = [sec |-> 0, nsec |-> 0]
  /\ total_nsec = Unset

TimeTotalNsec ==
  /\ op = "none"
  /\ op' = "time_total_nsec"
  /\ total_nsec' = rmw_time_total_nsec(time_in)
  /\ UNCHANGED <<ret, time_in, normalized>>
  /\ UNCHANGED <<validator_vars, qos_vars, options_vars, copy_vars,
                 array_vars, gid_vars, filter_vars, source_vars>>

TimeNormalize ==
  /\ op = "none"
  /\ op' = "time_normalize"
  /\ normalized' = rmw_time_normalize(time_in)
  /\ UNCHANGED <<ret, time_in, total_nsec>>
  /\ UNCHANGED <<validator_vars, qos_vars, options_vars, copy_vars,
                 array_vars, gid_vars, filter_vars, source_vars>>

NextTime ==
  \/ TimeTotalNsec
  \/ TimeNormalize

SpecTime == InitTime /\ [][NextTime]_vars

----------------------------------------------------------------------------
(* The content filter options as a state machine: the caller holds a       *)
(* destination and a source, each zero-initialized or initialized, and     *)
(* calls set or copy on the destination                                    *)

\* The argument vectors of argc parameters a caller passes.
ParameterVectors(argc) ==
  {[i \in 1..argc |-> parameter] : parameter \in ExpressionParameters}

\* What goes wrong in a call: nothing, rcutils_string_array_fini,
\* rcutils_string_array_init, or one allocation.
Faults ==
  {[fini_ret |-> "RCUTILS_RET_OK", rcutils_ret |-> "RCUTILS_RET_OK",
    failure |-> failure] : failure \in AllocationFailures}
  \cup {[fini_ret |-> "RCUTILS_RET_ERROR", rcutils_ret |-> "RCUTILS_RET_OK",
         failure |-> 0],
        [fini_ret |-> "RCUTILS_RET_OK", rcutils_ret |-> "RCUTILS_RET_BAD_ALLOC",
         failure |-> 0]}

\* What a caller holds after zero-initializing an options structure over
\* heap h and, for all but the first, initializing it.
InitializedFilters(h) ==
  {[options |-> rmw_get_zero_initialized_content_filter_options, heap |-> h]}
  \cup
  UNION {
    { LET out == rmw_subscription_content_filter_options_init(
                   FALSE, expression, argc, FALSE, argv, "valid", FALSE,
                   rmw_get_zero_initialized_content_filter_options,
                   "RCUTILS_RET_OK", 0, h)
      IN [options |-> out.options, heap |-> out.heap] :
      expression \in FilterExpressions, argv \in ParameterVectors(argc) } :
    argc \in 0..MaxParams }

InitContentFilter ==
  /\ op = "none"
  /\ ret = Unset
  /\ ValidatorIdle
  /\ QosIdle
  /\ discovery_options = rmw_get_zero_initialized_discovery_options
  /\ security_options = rmw_get_zero_initialized_security_options
  /\ calls = 0
  /\ CopyIdle
  /\ ArraysIdle
  /\ GidIdle
  /\ TimeIdle
  /\ SourceIdle
  /\ \E dst \in InitializedFilters(<<>>) :
       \E src \in InitializedFilters(dst.heap) :
         /\ content_filter_options = dst.options
         /\ content_filter_src = src.options
         /\ heap = src.heap

\* A call on the destination: o is the entry point, a its arguments, out
\* what it leaves behind.
ContentFilterCall(o, a, out) ==
  /\ op = "none"
  /\ op' = o
  /\ args' = a
  /\ calls' = calls + 1
  /\ ret' = out.ret
  /\ heap' = out.heap
  /\ UNCHANGED <<content_filter_src, discovery_options, security_options,
                 discovery_dst, result>>
  /\ UNCHANGED <<validator_vars, qos_vars, array_vars, gid_vars, time_vars,
                 source_vars>>

ContentFilterOptionsSet ==
  \E expression_null \in BOOLEAN, filter_expression \in FilterExpressions,
     argc \in 0..MaxParams, argv_null \in BOOLEAN,
     allocator \in AllocatorArgs, options_null \in BOOLEAN,
     fault \in Faults :
    \E argv \in ParameterVectors(argc) :
      LET out == rmw_subscription_content_filter_options_set(
                   expression_null, filter_expression, argc, argv_null, argv,
                   allocator, options_null, content_filter_options,
                   fault.fini_ret, fault.rcutils_ret, fault.failure, heap)
      IN /\ ContentFilterCall("content_filter_options_set",
              [expression_null |-> expression_null, argc |-> argc,
               argv_null |-> argv_null, allocator |-> allocator,
               options_null |-> options_null], out)
         /\ content_filter_options' = out.options

ContentFilterOptionsCopy ==
  \E src_null \in BOOLEAN, allocator \in AllocatorArgs,
     dst_null \in BOOLEAN, fault \in Faults :
    LET out == rmw_subscription_content_filter_options_copy(src_null,
                 content_filter_src, allocator, dst_null,
                 content_filter_options, fault.fini_ret, fault.rcutils_ret,
                 fault.failure, heap)
    IN /\ ContentFilterCall("content_filter_options_copy",
            [src_null |-> src_null, allocator |-> allocator,
             dst_null |-> dst_null], out)
       /\ content_filter_options' = out.options

NextContentFilter ==
  \/ ContentFilterOptionsSet
  \/ ContentFilterOptionsCopy

SpecContentFilter == InitContentFilter /\ [][NextContentFilter]_vars

----------------------------------------------------------------------------
(* The rules of the specification, stated on a name s (indexed from 1) *)

TopicChars == {"/", "a", "1", "_"}
NodeChars == {"a", "1", "_"}
Digits == {"1"}

IsEmpty(s) == Len(s) = 0
NotAbsolute(s) == Len(s) > 0 /\ s[1] # "/"
EndsWithSlash(s) == Len(s) > 0 /\ s[Len(s)] = "/"
\* positions of characters that are not alphanumeric, '_' or '/'
UnallowedAt(s) == {i \in 1..Len(s) : s[i] \notin TopicChars}
\* positions of a '/' that follows a '/'
RepeatedSlashAt(s) == {i \in 2..Len(s) : s[i - 1] = "/" /\ s[i] = "/"}
\* positions of a digit that starts a token: the first character, or one
\* right after a '/'
TokenDigitAt(s) ==
  {i \in 1..Len(s) : s[i] \in Digits /\ (i = 1 \/ s[i - 1] = "/")}
TopicTooLong(s) == Len(s) > RMW_TOPIC_MAX_NAME_LENGTH

TopicStructuralFault(s) ==
  \/ IsEmpty(s) \/ NotAbsolute(s) \/ EndsWithSlash(s)
  \/ UnallowedAt(s) # {} \/ RepeatedSlashAt(s) # {} \/ TokenDigitAt(s) # {}

NamespaceStructuralFault(s) == s # <<"/">> /\ TopicStructuralFault(s)
NamespaceTooLong(s) == Len(s) > RMW_NAMESPACE_MAX_LENGTH

NodeUnallowed(s) == {i \in 1..Len(s) : s[i] \notin NodeChars}
NodeStartsWithDigit(s) == Len(s) > 0 /\ s[1] \in Digits
NodeStructuralFault(s) ==
  IsEmpty(s) \/ NodeUnallowed(s) # {} \/ NodeStartsWithDigit(s)
NodeTooLong(s) == Len(s) > RMW_NODE_NAME_MAX_NAME_LENGTH

\* The name a call was asked to judge: the first name_length characters.
Judged == SubSeq(name, 1, name_length)

IsTopicCall == op \in {"topic", "topic_with_size"}
IsNamespaceCall == op \in {"namespace", "namespace_with_size"}
IsNodeCall == op \in {"node_name", "node_name_with_size"}
ArgsValid == ~name_null /\ ~validation_result_null

----------------------------------------------------------------------------
(* C1 *)

\* The first rule, in the order of the specification, that s violates.
FirstViolatedTopicRule(s) ==
  IF IsEmpty(s) THEN RMW_TOPIC_INVALID_IS_EMPTY_STRING
  ELSE IF NotAbsolute(s) THEN RMW_TOPIC_INVALID_NOT_ABSOLUTE
  ELSE IF EndsWithSlash(s) THEN RMW_TOPIC_INVALID_ENDS_WITH_FORWARD_SLASH
  ELSE IF UnallowedAt(s) # {} THEN RMW_TOPIC_INVALID_CONTAINS_UNALLOWED_CHARACTERS
  ELSE IF RepeatedSlashAt(s) # {} THEN
    RMW_TOPIC_INVALID_CONTAINS_REPEATED_FORWARD_SLASH
  ELSE IF TokenDigitAt(s) # {} THEN RMW_TOPIC_INVALID_NAME_TOKEN_STARTS_WITH_NUMBER
  ELSE IF TopicTooLong(s) THEN RMW_TOPIC_INVALID_TOO_LONG
  ELSE RMW_TOPIC_VALID

\* C1 as claimed: the topic validator reports the first rule, in the order
\* empty, not absolute, ends with '/', unallowed character, repeated '/',
\* token starts with a digit, too long, that the name violates.
C1_FirstRuleInOrder ==
  IsTopicCall /\ ArgsValid =>
    ret = RMW_RET_OK /\ validation_result = FirstViolatedTopicRule(Judged)

\* Repeated '/' and digit-led token as one rule: the one whose offending
\* character comes first in the name is reported.
LeftmostTokenFault(s) ==
  IF \E r \in RepeatedSlashAt(s) : \A d \in TokenDigitAt(s) : r < d
  THEN RMW_TOPIC_INVALID_CONTAINS_REPEATED_FORWARD_SLASH
  ELSE RMW_TOPIC_INVALID_NAME_TOKEN_STARTS_WITH_NUMBER

\* C1 as amended: the topic validator reports the first violated rule in the
\* order empty, not absolute, ends with '/', unallowed character, then
\* repeated '/' and token-starts-with-digit taken together (of these two the
\* one that occurs leftmost in the name), then too long.
C1_FirstRuleLeftmostTokenFault ==
  IsTopicCall /\ ArgsValid =>
    /\ ret = RMW_RET_OK
    /\ validation_result =
         IF /\ FirstViolatedTopicRule(Judged) =
                 RMW_TOPIC_INVALID_CONTAINS_REPEATED_FORWARD_SLASH
            /\ TokenDigitAt(Judged) # {}
         THEN LeftmostTokenFault(Judged)
         ELSE FirstViolatedTopicRule(Judged)

\* A name with a digit-led token left of a repeated '/' was judged.
C1_Witness ==
  /\ IsTopicCall /\ ArgsValid
  /\ RepeatedSlashAt(Judged) # {} /\ TokenDigitAt(Judged) # {}
  /\ validation_result = RMW_TOPIC_INVALID_NAME_TOKEN_STARTS_WITH_NUMBER

----------------------------------------------------------------------------
(* C2 *)

\* C2 as claimed: each validator reports TOO_LONG only for a name that passes
\* every structural rule; a name that breaks a structural rule and the
\* length bound is reported with a structural code.  The name is the one
\* the call was asked to judge, in the plain and in the _with_size form.
C2_TooLongCheckedLast ==
  /\ IsTopicCall /\ ArgsValid =>
       /\ validation_result = RMW_TOPIC_INVALID_TOO_LONG =>
            ~TopicStructuralFault(Judged)
       /\ TopicStructuralFault(Judged) /\ TopicTooLong(Judged) =>
            validation_result \in
              RMW_TOPIC_INVALID_IS_EMPTY_STRING ..
                RMW_TOPIC_INVALID_NAME_TOKEN_STARTS_WITH_NUMBER
  /\ IsNamespaceCall /\ ArgsValid =>
       /\ validation_result = RMW_NAMESPACE_INVALID_TOO_LONG =>
            ~NamespaceStructuralFault(Judged)
       /\ NamespaceStructuralFault(Judged) /\ NamespaceTooLong(Judged) =>
            validation_result \in
              RMW_NAMESPACE_INVALID_IS_EMPTY_STRING ..
                RMW_NAMESPACE_INVALID_NAME_TOKEN_STARTS_WITH_NUMBER
  /\ IsNodeCall /\ ArgsValid =>
       /\ validation_result = RMW_NODE_NAME_INVALID_TOO_LONG =>
            ~NodeStructuralFault(Judged)
       /\ NodeStructuralFault(Judged) /\ NodeTooLong(Judged) =>
            validation_result \in
              RMW_NODE_NAME_INVALID_IS_EMPTY_STRING ..
                RMW_NODE_NAME_INVALID_STARTS_WITH_NUMBER


----------------------------------------------------------------------------
(* C3 *)

\* C3 as claimed: in the plain and the _with_size form of every validator a
\* NULL name returns RMW_RET_INVALID_ARGUMENT and writes neither output,
\* and a name of length 0 with a non-NULL validation_result returns
\* RMW_RET_OK with the validator's IS_EMPTY_STRING code.
C3_NullIsNotEmpty ==
  op # "none" =>
    /\ name_null =>
         /\ ret = RMW_RET_INVALID_ARGUMENT
         /\ validation_result = Unset
         /\ invalid_index = Unset
    /\ ~name_null /\ ~validation_result_null /\ name_length = 0 =>
         /\ ret = RMW_RET_OK
         /\ validation_result =
              IF IsTopicCall THEN RMW_TOPIC_INVALID_IS_EMPTY_STRING
              ELSE IF IsNamespaceCall THEN RMW_NAMESPACE_INVALID_IS_EMPTY_STRING
              ELSE RMW_NODE_NAME_INVALID_IS_EMPTY_STRING

----------------------------------------------------------------------------
(* C4 *)

ResultCodes ==
  IF IsTopicCall THEN RMW_TOPIC_VALID .. RMW_TOPIC_INVALID_TOO_LONG
  ELSE IF IsNamespaceCall THEN RMW_NAMESPACE_VALID .. RMW_NAMESPACE_INVALID_TOO_LONG
  ELSE RMW_NODE_NAME_VALID .. RMW_NODE_NAME_INVALID_TOO_LONG

\* C4: with a non-NULL name and a non-NULL validation_result every validator
\* returns RMW_RET_OK and stores one of its own result codes, whatever the
\* verdict.
C4_VerdictNeverInStatus ==
  op # "none" /\ ArgsValid =>
    ret = RMW_RET_OK /\ validation_result \in ResultCodes

\* The namespace validator judged a namespace with a digit-led token.
C4_Witness ==
  /\ IsNamespaceCall /\ ArgsValid
  /\ ret = RMW_RET_OK
  /\ validation_result = RMW_NAMESPACE_INVALID_NAME_TOKEN_STARTS_WITH_NUMBER

----------------------------------------------------------------------------
(* C5 *)

\* C5: the namespace validator returns RMW_RET_OK with RMW_NAMESPACE_VALID
\* for the root namespace "/", a name the topic validator reports as ending
\* with a '/'.
C5_RootNamespaceIsValid ==
  /\ IsNamespaceCall /\ ArgsValid /\ Judged = <<"/">> =>
       ret = RMW_RET_OK /\ validation_result = RMW_NAMESPACE_VALID
  /\ IsTopicCall /\ ArgsValid /\ Judged = <<"/">> =>
       validation_result = RMW_TOPIC_INVALID_ENDS_WITH_FORWARD_SLASH

\* The namespace validator judged "/".
C5_Witness ==
  /\ IsNamespaceCall /\ ArgsValid /\ Judged = <<"/">>
  /\ validation_result = RMW_NAMESPACE_VALID

----------------------------------------------------------------------------
(* C6 *)

\* What the topic validator reports for the string s.
TopicVerdict(s) ==
  rmw_validate_full_topic_name(FALSE, s, FALSE, FALSE, Unset, Unset)

\* The namespace code of the same kind as each structural topic code.
SameKind ==
  {<<RMW_TOPIC_INVALID_IS_EMPTY_STRING, RMW_NAMESPACE_INVALID_IS_EMPTY_STRING>>,
   <<RMW_TOPIC_INVALID_NOT_ABSOLUTE, RMW_NAMESPACE_INVALID_NOT_ABSOLUTE>>,
   <<RMW_TOPIC_INVALID_ENDS_WITH_FORWARD_SLASH,
     RMW_NAMESPACE_INVALID_ENDS_WITH_FORWARD_SLASH>>,
   <<RMW_TOPIC_INVALID_CONTAINS_UNALLOWED_CHARACTERS,
     RMW_NAMESPACE_INVALID_CONTAINS_UNALLOWED_CHARACTERS>>,
   <<RMW_TOPIC_INVALID_CONTAINS_REPEATED_FORWARD_SLASH,
     RMW_NAMESPACE_INVALID_CONTAINS_REPEATED_FORWARD_SLASH>>,
   <<RMW_TOPIC_INVALID_NAME_TOKEN_STARTS_WITH_NUMBER,
     RMW_NAMESPACE_INVALID_NAME_TOKEN_STARTS_WITH_NUMBER>>}

\* C6 as claimed: for a namespace other than "/" for which the topic
\* validator reports a structural violation, the namespace validator reports
\* the namespace code of the same kind and the same invalid index.  The
\* namespace is the one the call was asked to judge, in either form.
C6_NamespaceRemapsTopicVerdict ==
  IsNamespaceCall /\ ArgsValid /\ Judged # <<"/">> =>
    LET t == TopicVerdict(Judged) IN
      (\E k \in SameKind : k[1] = t.validation_result) =>
        /\ ret = RMW_RET_OK
        /\ <<t.validation_result, validation_result>> \in SameKind
        /\ ~invalid_index_null => invalid_index = t.invalid_index


----------------------------------------------------------------------------
(* C7 *)

\* C7 as claimed: a namespace that passes every structural rule is valid up
\* to RMW_TOPIC_MAX_NAME_LENGTH - 2 characters and too long beyond, also at
\* the two lengths above that bound at which it is still a valid topic name.
\* The namespace is the one the call was asked to judge, in either form.
C7_NamespaceLengthBound ==
  IsNamespaceCall /\ ArgsValid /\ ~NamespaceStructuralFault(Judged) =>
    /\ ret = RMW_RET_OK
    /\ validation_result =
         IF Len(Judged) <= RMW_TOPIC_MAX_NAME_LENGTH - 2
         THEN RMW_NAMESPACE_VALID
         ELSE RMW_NAMESPACE_INVALID_TOO_LONG
    /\ Len(Judged) \in {RMW_TOPIC_MAX_NAME_LENGTH - 1, RMW_TOPIC_MAX_NAME_LENGTH} =>
         TopicVerdict(Judged).validation_result = RMW_TOPIC_VALID


----------------------------------------------------------------------------
(* C8 *)

\* C8: a topic name that is not empty, starts with '/', does not end with
\* '/', holds only alphanumerics, '_' and '/', has no "//", no token led by
\* a digit and at most RMW_TOPIC_MAX_NAME_LENGTH characters is RMW_TOPIC_VALID.
C8_WellFormedTopicIsValid ==
  IsTopicCall /\ ArgsValid /\ ~TopicStructuralFault(Judged)
    /\ Len(Judged) <= RMW_TOPIC_MAX_NAME_LENGTH =>
      ret = RMW_RET_OK /\ validation_result = RMW_TOPIC_VALID

\* A topic name of the greatest allowed length, holding a '_', was judged valid.
C8_Witness ==
  /\ IsTopicCall /\ ArgsValid
  /\ Len(Judged) = RMW_TOPIC_MAX_NAME_LENGTH
  /\ \E i \in 1..Len(Judged) : Judged[i] = "_"
  /\ validation_result = RMW_TOPIC_VALID

----------------------------------------------------------------------------
(* C9 *)

\* p is the least element of S
IsLeast(p, S) == p \in S /\ \A q \in S : p <= q

\* C9: the index the topic validator stores with a character-level verdict
\* is the first position that breaks the reported rule: the first unallowed
\* character, the second '/' of the leftmost "//", the digit of the leftmost
\* digit-led token; "/foo//bar" and "/foo/2bar" both give index 5.
\* (invalid_index counts from 0, positions of Judged from 1.)
C9_IndexOfReportedRule ==
  IsTopicCall /\ ArgsValid /\ ~invalid_index_null =>
    /\ validation_result = RMW_TOPIC_INVALID_CONTAINS_UNALLOWED_CHARACTERS =>
         IsLeast(invalid_index + 1, UnallowedAt(Judged))
    /\ validation_result = RMW_TOPIC_INVALID_CONTAINS_REPEATED_FORWARD_SLASH =>
         IsLeast(invalid_index + 1, RepeatedSlashAt(Judged))
    /\ validation_result = RMW_TOPIC_INVALID_NAME_TOKEN_STARTS_WITH_NUMBER =>
         IsLeast(invalid_index + 1, TokenDigitAt(Judged))
    /\ Judged = <<"/", "a", "a", "a", "/", "/", "a", "a", "a">> =>
         /\ validation_result = RMW_TOPIC_INVALID_CONTAINS_REPEATED_FORWARD_SLASH
         /\ invalid_index = 5
    /\ Judged = <<"/", "a", "a", "a", "/", "1", "a", "a", "a">> =>
         /\ validation_result = RMW_TOPIC_INVALID_NAME_TOKEN_STARTS_WITH_NUMBER
         /\ invalid_index = 5

\* A name with unallowed characters at two positions was judged.
C9_Witness ==
  /\ IsTopicCall /\ ArgsValid /\ ~invalid_index_null
  /\ validation_result = RMW_TOPIC_INVALID_CONTAINS_UNALLOWED_CHARACTERS
  /\ Cardinality(UnallowedAt(Judged)) > 1
  /\ invalid_index > 1

----------------------------------------------------------------------------
(* C10 *)

\* The positions of s at which a character breaks a structural rule.
TopicFaultAt(s) == UnallowedAt(s) \cup RepeatedSlashAt(s) \cup TokenDigitAt(s)
NodeFaultAt(s) ==
  NodeUnallowed(s) \cup {i \in 1..Len(s) : i = 1 /\ s[i] \in Digits}

\* no position of S is at a C index below idx
NoneBelow(idx, S) == \A p \in S : p > idx

\* C10 as claimed: with an invalid verdict other than TOO_LONG, no character
\* at an index below the stored invalid index breaks any structural rule of
\* the validator.
C10_IndexIsFirstFault ==
  ArgsValid /\ ~invalid_index_null /\ ret = RMW_RET_OK =>
    /\ IsTopicCall /\ validation_result # RMW_TOPIC_VALID
         /\ validation_result # RMW_TOPIC_INVALID_TOO_LONG =>
           NoneBelow(invalid_index, TopicFaultAt(Judged))
    /\ IsNamespaceCall /\ validation_result # RMW_NAMESPACE_VALID
         /\ validation_result # RMW_NAMESPACE_INVALID_TOO_LONG =>
           NoneBelow(invalid_index, TopicFaultAt(Judged))
    /\ IsNodeCall /\ validation_result # RMW_NODE_NAME_VALID
         /\ validation_result # RMW_NODE_NAME_INVALID_TOO_LONG =>
           NoneBelow(invalid_index, NodeFaultAt(Judged))

\* C10 as amended: no character at an index below the stored invalid index
\* breaks the reported rule or a rule the validator checks before it.  For
\* an unallowed character that is: no unallowed character below; for a
\* repeated '/' or a digit-led token: no structural fault at all below.
C10_IndexIsFirstFaultOfRulesChecked ==
  ArgsValid /\ ~invalid_index_null /\ ret = RMW_RET_OK =>
    /\ IsTopicCall =>
         /\ validation_result = RMW_TOPIC_INVALID_CONTAINS_UNALLOWED_CHARACTERS =>
              NoneBelow(invalid_index, UnallowedAt(Judged))
         /\ validation_result \in
              {RMW_TOPIC_INVALID_CONTAINS_REPEATED_FORWARD_SLASH,
               RMW_TOPIC_INVALID_NAME_TOKEN_STARTS_WITH_NUMBER} =>
              NoneBelow(invalid_index, TopicFaultAt(Judged))
    /\ IsNamespaceCall =>
         /\ validation_result =
              RMW_NAMESPACE_INVALID_CONTAINS_UNALLOWED_CHARACTERS =>
              NoneBelow(invalid_index, UnallowedAt(Judged))
         /\ validation_result \in
              {RMW_NAMESPACE_INVALID_CONTAINS_REPEATED_FORWARD_SLASH,
               RMW_NAMESPACE_INVALID_NAME_TOKEN_STARTS_WITH_NUMBER} =>
              NoneBelow(invalid_index, TopicFaultAt(Judged))
    /\ IsNodeCall =>
         /\ validation_result =
              RMW_NODE_NAME_INVALID_CONTAINS_UNALLOWED_CHARACTERS =>
              NoneBelow(invalid_index, NodeUnallowed(Judged))
         /\ validation_result = RMW_NODE_NAME_INVALID_STARTS_WITH_NUMBER =>
              NoneBelow(invalid_index, NodeFaultAt(Judged))

\* A name with two digit-led tokens was judged.
C10_Witness ==
  /\ IsTopicCall /\ ArgsValid /\ ~invalid_index_null
  /\ validation_result = RMW_TOPIC_INVALID_NAME_TOKEN_STARTS_WITH_NUMBER
  /\ Cardinality(TokenDigitAt(Judged)) > 1
  /\ invalid_index = 1

----------------------------------------------------------------------------
(* C11 *)

\* The verdict a call stored says the name is valid.
ReportsValid ==
  \/ IsTopicCall /\ validation_result = RMW_TOPIC_VALID
  \/ IsNamespaceCall /\ validation_result = RMW_NAMESPACE_VALID
  \/ IsNodeCall /\ validation_result = RMW_NODE_NAME_VALID

\* C11: a call of any of the three validators that reports VALID leaves the
\* caller's invalid_index at the value it had before the call.
C11_ValidLeavesIndex ==
  [][(ArgsValid /\ ~invalid_index_null /\ ret' = RMW_RET_OK /\ ReportsValid')
       => invalid_index' = invalid_index]_vars

\* A name was judged valid with a non-NULL invalid_index, by each validator
\* in turn; here the namespace validator on a name other than "/".
C11_Witness ==
  /\ IsNamespaceCall /\ ArgsValid /\ ~invalid_index_null
  /\ ret = RMW_RET_OK /\ ReportsValid
  /\ Len(Judged) > 1

----------------------------------------------------------------------------
(* C12 *)

\* The node names C12 calls valid.
WellFormedNodeName(s) ==
  /\ Len(s) > 0
  /\ \A i \in 1..Len(s) : s[i] \in NodeChars
  /\ s[1] \notin Digits
  /\ Len(s) <= 255

\* C12: the node-name validator reports VALID exactly for the names that
\* are not empty, hold only alphanumerics and '_', do not start with a digit
\* and have at most 255 characters; a name of allowed characters that starts
\* with a digit, such as "9abc", is reported STARTS_WITH_NUMBER at index 0.
C12_NodeNameValidExactly ==
  IsNodeCall /\ ArgsValid =>
    /\ ret = RMW_RET_OK
    /\ validation_result = RMW_NODE_NAME_VALID <=> WellFormedNodeName(Judged)
    /\ (/\ Len(Judged) > 0
        /\ \A i \in 1..Len(Judged) : Judged[i] \in NodeChars
        /\ Judged[1] \in Digits) =>
         /\ validation_result = RMW_NODE_NAME_INVALID_STARTS_WITH_NUMBER
         /\ ~invalid_index_null => invalid_index = 0

\* The node name "9abc" (a digit, then letters) was judged.
C12_Witness ==
  /\ IsNodeCall /\ ArgsValid /\ ~invalid_index_null
  /\ Judged = <<"1", "a", "a", "a">>
  /\ validation_result = RMW_NODE_NAME_INVALID_STARTS_WITH_NUMBER
  /\ invalid_index = 0

----------------------------------------------------------------------------
(* The compatibility check, as the claims see it *)

\* A compatibility check was made and its arguments were accepted.
IsQosCall == op = "check_compatible"
QosChecked == IsQosCall /\ ret = RMW_RET_OK
\* ... and the whole explanation fits the reason buffer it was given.
QosExplained ==
  QosChecked /\ ~reason_null /\ reason_size = ReasonBufferSize

\* the text holds an explanation of class kind that names policy
HasReason(text, kind, policy) ==
  \E i \in 1..(Len(text) - 1) : text[i] = kind /\ text[i + 1] = policy

----------------------------------------------------------------------------
(* C13 *)

BestEffortToReliable ==
  /\ publisher_profile.reliability = RMW_QOS_POLICY_RELIABILITY_BEST_EFFORT
  /\ subscription_profile.reliability = RMW_QOS_POLICY_RELIABILITY_RELIABLE

\* C13: the check reports an error on reliability exactly when the publisher
\* is best-effort and the subscription reliable; the verdict is then
\* RMW_QOS_COMPATIBILITY_ERROR and the reason names reliability.
C13_ReliabilityError ==
  /\ QosChecked /\ BestEffortToReliable =>
       compatibility = RMW_QOS_COMPATIBILITY_ERROR
  /\ QosExplained =>
       (HasReason(reason, "ERROR", "reliability") <=> BestEffortToReliable)

\* A best-effort publisher was checked against a reliable subscription.
C13_Witness ==
  /\ QosExplained /\ BestEffortToReliable
  /\ compatibility = RMW_QOS_COMPATIBILITY_ERROR
  /\ HasReason(reason, "ERROR", "reliability")

----------------------------------------------------------------------------
(* C14 *)

VolatileToTransientLocal ==
  /\ publisher_profile.durability = RMW_QOS_POLICY_DURABILITY_VOLATILE
  /\ subscription_profile.durability = RMW_QOS_POLICY_DURABILITY_TRANSIENT_LOCAL

DurabilityUnresolved ==
  {publisher_profile.durability, subscription_profile.durability}
    \cap {RMW_QOS_POLICY_DURABILITY_SYSTEM_DEFAULT,
          RMW_QOS_POLICY_DURABILITY_UNKNOWN,
          RMW_QOS_POLICY_DURABILITY_BEST_AVAILABLE} # {}

\* C14: the check reports an error on durability exactly when the publisher
\* is volatile and the subscription transient-local; with system-default,
\* unknown or best-available on either side it reports a warning on
\* durability, not an error.
C14_DurabilityError ==
  /\ QosChecked /\ VolatileToTransientLocal =>
       compatibility = RMW_QOS_COMPATIBILITY_ERROR
  /\ QosExplained =>
       /\ HasReason(reason, "ERROR", "durability") <=> VolatileToTransientLocal
       /\ DurabilityUnresolved =>
            /\ HasReason(reason, "WARNING", "durability")
            /\ compatibility # RMW_QOS_COMPATIBILITY_OK

\* An unresolved publisher durability was checked against a transient-local
\* subscription, and only warnings came of it.
C14_Witness ==
  /\ QosExplained /\ DurabilityUnresolved
  /\ subscription_profile.durability = RMW_QOS_POLICY_DURABILITY_TRANSIENT_LOCAL
  /\ compatibility = RMW_QOS_COMPATIBILITY_WARNING
  /\ HasReason(reason, "WARNING", "durability")

----------------------------------------------------------------------------
(* C15 *)

\* The verdicts of the four policies for the profiles of the call.
PolicyVerdicts ==
  {PolicyVerdict(QosPolicies[i], publisher_profile, subscription_profile)
   : i \in 1..Len(QosPolicies)}

\* C15: the verdict is the worst verdict of any policy (error over warning
\* over ok), and every policy with an error or a warning has its reason in
\* the explanation: none is skipped because another one failed.
C15_WorstVerdictAllReasons ==
  /\ QosChecked =>
       compatibility =
         IF RMW_QOS_COMPATIBILITY_ERROR \in PolicyVerdicts
         THEN RMW_QOS_COMPATIBILITY_ERROR
         ELSE IF RMW_QOS_COMPATIBILITY_WARNING \in PolicyVerdicts
         THEN RMW_QOS_COMPATIBILITY_WARNING
         ELSE RMW_QOS_COMPATIBILITY_OK
  /\ QosExplained =>
       \A i \in 1..Len(QosPolicies) :
         LET v == PolicyVerdict(QosPolicies[i], publisher_profile,
                                subscription_profile)
         IN /\ HasReason(reason, "ERROR", QosPolicies[i])
                 <=> v = RMW_QOS_COMPATIBILITY_ERROR
            /\ HasReason(reason, "WARNING", QosPolicies[i])
                 <=> v = RMW_QOS_COMPATIBILITY_WARNING

\* A pairing with an error on durability, none on reliability, and a warning
\* on another policy was checked.
C15_Witness ==
  /\ QosExplained
  /\ compatibility = RMW_QOS_COMPATIBILITY_ERROR
  /\ HasReason(reason, "ERROR", "durability")
  /\ ~HasReason(reason, "ERROR", "reliability")
  /\ HasReason(reason, "WARNING", "liveliness")

----------------------------------------------------------------------------
(* C16 *)

\* one of the two values is system-default or unknown
Undetermined(pub_value, sub_value, system_default, unknown) ==
  {pub_value, sub_value} \cap {system_default, unknown} # {}

\* C16: a policy that is system-default or unknown in either profile gives a
\* warning with its reason and no error; a pairing of two profiles that are
\* system-default in every policy never has the verdict ERROR.
C16_UndeterminedIsWarning ==
  /\ QosExplained =>
       /\ Undetermined(publisher_profile.reliability,
                       subscription_profile.reliability,
                       RMW_QOS_POLICY_RELIABILITY_SYSTEM_DEFAULT,
                       RMW_QOS_POLICY_RELIABILITY_UNKNOWN) =>
            /\ HasReason(reason, "WARNING", "reliability")
            /\ ~HasReason(reason, "ERROR", "reliability")
       /\ Undetermined(publisher_profile.durability,
                       subscription_profile.durability,
                       RMW_QOS_POLICY_DURABILITY_SYSTEM_DEFAULT,
                       RMW_QOS_POLICY_DURABILITY_UNKNOWN) =>
            /\ HasReason(reason, "WARNING", "durability")
            /\ ~HasReason(reason, "ERROR", "durability")
       /\ Undetermined(publisher_profile.liveliness,
                       subscription_profile.liveliness,
                       RMW_QOS_POLICY_LIVELINESS_SYSTEM_DEFAULT,
                       RMW_QOS_POLICY_LIVELINESS_UNKNOWN) =>
            /\ HasReason(reason, "WARNING", "liveliness")
            /\ ~HasReason(reason, "ERROR", "liveliness")
  /\ QosChecked =>
       /\ (\/ Undetermined(publisher_profile.reliability,
                           subscription_profile.reliability,
                           RMW_QOS_POLICY_RELIABILITY_SYSTEM_DEFAULT,
                           RMW_QOS_POLICY_RELIABILITY_UNKNOWN)
           \/ Undetermined(publisher_profile.durability,
                           subscription_profile.durability,
                           RMW_QOS_POLICY_DURABILITY_SYSTEM_DEFAULT,
                           RMW_QOS_POLICY_DURABILITY_UNKNOWN)
           \/ Undetermined(publisher_profile.liveliness,
                           subscription_profile.liveliness,
                           RMW_QOS_POLICY_LIVELINESS_SYSTEM_DEFAULT,
                           RMW_QOS_POLICY_LIVELINESS_UNKNOWN)) =>
            compatibility # RMW_QOS_COMPATIBILITY_OK
       /\ (/\ publisher_profile = rmw_qos_profile_system_default
           /\ subscription_profile = rmw_qos_profile_system_default) =>
            compatibility # RMW_QOS_COMPATIBILITY_ERROR

\* Two profiles that are system-default in every policy were checked.
C16_Witness ==
  /\ QosExplained
  /\ publisher_profile = rmw_qos_profile_system_default
  /\ subscription_profile = rmw_qos_profile_system_default
  /\ compatibility = RMW_QOS_COMPATIBILITY_WARNING
  /\ HasReason(reason, "WARNING", "reliability")

----------------------------------------------------------------------------
(* C17 *)

\* C17: whatever the profiles and reason_size, at most reason_size characters
\* are written to reason: the explanation from its start, cut short when it
\* does not fit, with every error before any warning.
C17_ReasonWithinBuffer ==
  QosChecked /\ ~reason_null =>
    /\ Len(reason) <= reason_size
    /\ \E n \in 0..Len(ReasonText(publisher_profile, subscription_profile)) :
         reason = SubSeq(ReasonText(publisher_profile, subscription_profile),
                         1, n)
    /\ Len(reason) < Len(ReasonText(publisher_profile, subscription_profile))
         => Len(reason) = reason_size
    /\ \A i, j \in 1..Len(reason) :
         reason[i] = "WARNING" /\ reason[j] = "ERROR" => j < i

\* An explanation with an error and a warning was cut to a buffer smaller
\* than it.
C17_Witness ==
  /\ QosChecked /\ ~reason_null
  /\ reason_size > 0
  /\ Len(reason) = reason_size
  /\ reason_size < Len(ReasonText(publisher_profile, subscription_profile))
  /\ compatibility = RMW_QOS_COMPATIBILITY_ERROR
  /\ RMW_QOS_COMPATIBILITY_WARNING \in PolicyVerdicts

----------------------------------------------------------------------------
(* C18 *)

\* C18: the check returns RMW_RET_INVALID_ARGUMENT when compatibility is
\* NULL and when reason is NULL with a reason_size other than zero; with
\* valid arguments an incompatible pair returns RMW_RET_OK.
C18_QosArguments ==
  IsQosCall =>
    /\ compatibility_null => ret = RMW_RET_INVALID_ARGUMENT
    /\ reason_null /\ reason_size # 0 => ret = RMW_RET_INVALID_ARGUMENT
    /\ (/\ ~compatibility_null
        /\ ~(reason_null /\ reason_size # 0)
        /\ RMW_QOS_COMPATIBILITY_ERROR \in PolicyVerdicts) =>
         /\ ret = RMW_RET_OK
         /\ compatibility = RMW_QOS_COMPATIBILITY_ERROR

\* A call with a NULL reason and a reason_size was refused, its verdict not
\* stored.
C18_Witness ==
  /\ IsQosCall
  /\ ~compatibility_null /\ reason_null /\ reason_size # 0
  /\ ret = RMW_RET_INVALID_ARGUMENT
  /\ compatibility = Unset

----------------------------------------------------------------------------
(* The options structures, as the claims see them *)

\* The last step of the caller was a call of entry point o.
IsOptionsCall(o) == op = o

\* A step that is a call of rmw_discovery_options_init.
DiscoveryInitStep ==
  calls' = calls + 1 /\ op' = "discovery_options_init"

----------------------------------------------------------------------------
(* C19 *)

\* C19: after a successful rmw_discovery_options_fini the structure equals
\* the value of rmw_get_zero_initialized_discovery_options, and after a
\* successful rmw_security_options_fini the value of
\* rmw_get_zero_initialized_security_options, field by field, whatever the
\* structure held before.
C19_FiniZeroInitializes ==
  /\ (IsOptionsCall("discovery_options_fini") /\ ret = RMW_RET_OK) =>
       /\ discovery_options.automatic_discovery_range
            = rmw_get_zero_initialized_discovery_options.automatic_discovery_range
       /\ discovery_options.static_peers
            = rmw_get_zero_initialized_discovery_options.static_peers
       /\ discovery_options.static_peers_count
            = rmw_get_zero_initialized_discovery_options.static_peers_count
       /\ discovery_options.allocator
            = rmw_get_zero_initialized_discovery_options.allocator
  /\ (IsOptionsCall("security_options_fini") /\ ret = RMW_RET_OK) =>
       /\ security_options.enforce_security
            = rmw_get_zero_initialized_security_options.enforce_security
       /\ security_options.security_root_path
            = rmw_get_zero_initialized_security_options.security_root_path

\* A fini succeeded on a discovery structure that held a range and a block
\* of static peers: the block was freed by it.
C19_Witness ==
  /\ IsOptionsCall("discovery_options_fini")
  /\ ret = RMW_RET_OK
  /\ \E b \in 1..Len(heap) :
       heap[b].kind = "peers" /\ heap[b].frees = 1
  /\ discovery_options = rmw_get_zero_initialized_discovery_options

----------------------------------------------------------------------------
(* C20 *)

\* C20: a call of rmw_discovery_options_init that returns
\* RMW_RET_INVALID_ARGUMENT or RMW_RET_BAD_ALLOC leaves every field of the
\* structure, automatic_discovery_range included, as it was before the call.
C20_InitFailureLeavesOptions ==
  [][(DiscoveryInitStep
      /\ ret' \in {RMW_RET_INVALID_ARGUMENT, RMW_RET_BAD_ALLOC}) =>
       discovery_options' = discovery_options]_vars

----------------------------------------------------------------------------
(* C21 *)

\* C21: when rmw_discovery_options_copy(src, allocator, dst) has returned
\* RMW_RET_OK, rmw_discovery_options_equal(src, dst, &result) returns
\* RMW_RET_OK and stores true, whatever range, number of static peers and
\* peer addresses src holds.
C21_CopyIsEqual ==
  [][(/\ op = "discovery_options_copy"
      /\ ret = RMW_RET_OK
      /\ op' = "discovery_options_equal"
      /\ args'.left = "src" /\ args'.right = "dst" /\ ~args'.result_null) =>
       (ret' = RMW_RET_OK /\ result' = TRUE)]_vars

----------------------------------------------------------------------------
(* C22 *)

\* What rmw_names_and_types_check_zero and
\* rmw_topic_endpoint_info_array_check_zero refuse.
NamesAndTypesNotZero ==
  \/ names_and_types.names.data # NULL
  \/ names_and_types.names.size # 0
  \/ names_and_types.types # NULL

TopicEndpointInfoArrayNotZero ==
  \/ topic_endpoint_info_array.size # 0
  \/ topic_endpoint_info_array.info_array # NULL

\* C22: rmw_names_and_types_init and
\* rmw_topic_endpoint_info_array_init_with_size, called on a structure that
\* is not zero-initialized, return RMW_RET_INVALID_ARGUMENT and leave the
\* structure as it was.
C22_InitRefusesNonZero ==
  [][/\ (/\ calls' = calls + 1
         /\ op' = "names_and_types_init"
         /\ ~args'.array_null
         /\ NamesAndTypesNotZero) =>
          (/\ ret' = RMW_RET_INVALID_ARGUMENT
           /\ names_and_types' = names_and_types)
     /\ (/\ calls' = calls + 1
         /\ op' = "topic_endpoint_info_array_init_with_size"
         /\ ~args'.array_null
         /\ TopicEndpointInfoArrayNotZero) =>
          (/\ ret' = RMW_RET_INVALID_ARGUMENT
           /\ topic_endpoint_info_array' = topic_endpoint_info_array)]_vars

----------------------------------------------------------------------------
(* C23 *)

\* C23: rmw_topic_endpoint_info_set_gid returns RMW_RET_INVALID_ARGUMENT
\* when topic_endpoint_info is NULL, when gid is NULL and when size is
\* greater than RMW_GID_STORAGE_SIZE; otherwise it returns RMW_RET_OK, the
\* first size bytes of endpoint_gid are those of gid and the bytes after
\* them, up to RMW_GID_STORAGE_SIZE, are zero.
C23_SetGid ==
  op = "topic_endpoint_info_set_gid" =>
    IF args.info_null \/ args.gid_null \/ args.size > RMW_GID_STORAGE_SIZE
    THEN ret = RMW_RET_INVALID_ARGUMENT
    ELSE /\ ret = RMW_RET_OK
         /\ \A i \in 1..RMW_GID_STORAGE_SIZE :
              endpoint_gid[i] = IF i <= args.size THEN args.gid[i] ELSE 0

----------------------------------------------------------------------------
(* The time functions, as the claims see them *)

\* The nanoseconds of an rmw_time_t, as a number without a width.
TotalOf(t) == t.sec * NsPerSec + t.nsec

\* The same, saturated at INT64_MAX.
SaturatedTotalOf(t) ==
  IF TotalOf(t) <= INT64_MAX THEN TotalOf(t) ELSE INT64_MAX

----------------------------------------------------------------------------
(* C24 *)

\* C24: rmw_time_total_nsec returns sec * 10^9 + nsec when that sum fits in
\* a signed 64-bit integer and INT64_MAX otherwise, is never negative and
\* never wraps, whatever sec and nsec are.
C24_TotalNsecSaturates ==
  op = "time_total_nsec" =>
    /\ total_nsec = SaturatedTotalOf(time_in)
    /\ total_nsec >= 0

\* The sum of a representable number of seconds and a nsec field of a
\* second or more did not fit and INT64_MAX was returned.
C24_Witness ==
  /\ op = "time_total_nsec"
  /\ time_in.sec <= INT64_MAX \div NsPerSec
  /\ time_in.nsec >= NsPerSec
  /\ TotalOf(time_in) > INT64_MAX
  /\ total_nsec = INT64_MAX

----------------------------------------------------------------------------
(* C25 *)

\* C25: rmw_time_normalize returns a time whose nsec is less than one
\* second and whose nanoseconds are those of the input saturated at
\* INT64_MAX; RMW_DURATION_INFINITE normalizes to itself and so does every
\* input whose nanoseconds do not fit.
C25_NormalizeKeepsTotal ==
  op = "time_normalize" =>
    /\ normalized.nsec < NsPerSec
    /\ TotalOf(normalized) = SaturatedTotalOf(time_in)
    /\ time_in = RMW_DURATION_INFINITE_AS_TIME =>
         normalized = RMW_DURATION_INFINITE_AS_TIME
    /\ TotalOf(time_in) > INT64_MAX =>
         normalized = RMW_DURATION_INFINITE_AS_TIME

\* A time with a nsec field of several seconds was normalized: seconds were
\* carried and nothing saturated.
C25_Witness ==
  /\ op = "time_normalize"
  /\ time_in.nsec >= 2 * NsPerSec
  /\ TotalOf(time_in) < INT64_MAX
  /\ normalized.sec >= time_in.sec + 2
  /\ normalized.nsec < NsPerSec

----------------------------------------------------------------------------
(* C26 *)

\* What C26 expects of rmw_validate_namespace_with_size on the first n
\* characters of buf: the root namespace is valid; otherwise the verdict of
\* rmw_validate_full_topic_name_with_size(buf, n) renamed to the namespace
\* codes with its invalid index, and the bound RMW_NAMESPACE_MAX_LENGTH in
\* place of the topic bound.  The index is ii where none is stored.
NamespaceOfFirst(buf, n, ii) ==
  LET t == rmw_validate_full_topic_name_with_size(
             FALSE, buf, n, FALSE, FALSE, Unset, Unset)
  IN IF n = 1 /\ buf[1] = "/"
     THEN [validation_result |-> RMW_NAMESPACE_VALID, invalid_index |-> ii]
     ELSE IF t.validation_result \notin
               {RMW_TOPIC_VALID, RMW_TOPIC_INVALID_TOO_LONG}
     THEN [validation_result |-> NamespaceResultFor(t.validation_result),
           invalid_index |-> t.invalid_index]
     ELSE IF n > RMW_NAMESPACE_MAX_LENGTH
     THEN [validation_result |-> RMW_NAMESPACE_INVALID_TOO_LONG,
           invalid_index |-> RMW_NAMESPACE_MAX_LENGTH - 1]
     ELSE [validation_result |-> RMW_NAMESPACE_VALID, invalid_index |-> ii]

\* C26: rmw_validate_namespace_with_size judges the first namespace_length
\* characters of namespace_: apart from the root case and the tighter length
\* bound, its verdict and invalid index are those of
\* rmw_validate_full_topic_name_with_size(namespace_, namespace_length)
\* renamed, also when namespace_length is not the position of the first NUL.
C26_NamespaceJudgesGivenLength ==
  op = "namespace_with_size" /\ ArgsValid =>
    /\ ret = RMW_RET_OK
    /\ validation_result =
         NamespaceOfFirst(name, name_length, Unset).validation_result
    /\ ~invalid_index_null =>
         invalid_index =
           NamespaceOfFirst(name, name_length, Unset).invalid_index

----------------------------------------------------------------------------
(* C27 *)

\* The string pointer points to in heap h: none for NULL and for a block
\* that was released.
HeldString(pointer, h) ==
  IF pointer = NULL THEN <<>>
  ELSE IF h[pointer].frees > 0 THEN <<>>
  ELSE <<h[pointer].content>>

\* The filter expression and the expression parameters options holds.
HeldFilter(options, h) ==
  [filter_expression |-> HeldString(options.filter_expression, h),
   expression_parameters |->
     IF options.expression_parameters.data = NULL THEN <<>>
     ELSE IF h[options.expression_parameters.data].frees > 0 THEN <<>>
     ELSE [i \in 1..options.expression_parameters.size |->
             HeldString(h[options.expression_parameters.data].content[i], h)]]

\* C27: a call of rmw_subscription_content_filter_options_set or
\* rmw_subscription_content_filter_options_copy that fails leaves the
\* destination holding the filter expression and the expression parameters
\* it held before the call.
C27_SetIsAllOrNothing ==
  [][(/\ op' \in {"content_filter_options_set",
                  "content_filter_options_copy"}
      /\ op = "none"
      /\ ret' # RMW_RET_OK) =>
       HeldFilter(content_filter_options', heap')
         = HeldFilter(content_filter_options, heap)]_vars

----------------------------------------------------------------------------
(* C28 *)

\* A step that is a call of rmw_security_options_copy or of
\* rmw_security_options_set_root_path.
SecurityPathStep ==
  /\ calls' = calls + 1
  /\ op' \in {"security_options_copy", "security_options_set_root_path"}

\* The text the call was to store: the source's root path for a copy, no
\* text when the source has none, and the given path for set_root_path.
NewPathTexts ==
  IF op' = "security_options_set_root_path" THEN RootPaths
  ELSE IF security_src.security_root_path = NULL THEN {}
  ELSE {heap[security_src.security_root_path].content}

\* C28: when rmw_security_options_copy or
\* rmw_security_options_set_root_path returns RMW_RET_BAD_ALLOC the
\* destination is unchanged and no block has been released; when it returns
\* RMW_RET_OK the destination's previous security_root_path has been
\* released exactly once, every other block is as it was, and the
\* destination owns a block allocated by the call that holds the new path
\* (no block when the source of a copy has no path).
C28_PathReplacedOrKept ==
  [][SecurityPathStep =>
       /\ ret' = RMW_RET_BAD_ALLOC =>
            security_options' = security_options /\ heap' = heap
       /\ ret' = RMW_RET_OK =>
            /\ \A b \in 1..Len(heap) :
                 /\ heap'[b].content = heap[b].content
                 /\ heap'[b].frees =
                      IF b = security_options.security_root_path
                      THEN heap[b].frees + 1 ELSE heap[b].frees
            /\ IF NewPathTexts = {}
               THEN /\ security_options'.security_root_path = NULL
                    /\ Len(heap') = Len(heap)
               ELSE /\ security_options'.security_root_path = Len(heap) + 1
                    /\ Len(heap') = Len(heap) + 1
                    /\ heap'[Len(heap')].content \in NewPathTexts
                    /\ heap'[Len(heap')].frees = 0]_vars

\* The first call was a copy that succeeded on a destination holding a
\* path: the old path has been freed once and the destination holds a live
\* block with the source's path.
C28_Witness ==
  /\ op = "security_options_copy"
  /\ calls = 1
  /\ ret = RMW_RET_OK
  /\ security_src.security_root_path # NULL
  /\ \E b \in 1..Len(heap) :
       /\ b # security_options.security_root_path
       /\ b # security_src.security_root_path
       /\ heap[b].frees = 1
  /\ security_options.security_root_path # NULL
  /\ heap[security_options.security_root_path].frees = 0
  /\ heap[security_options.security_root_path].content
       = heap[security_src.security_root_path].content

====
